---- MODULE Spec2Model ----
(***************************************************************************)
(* PHI detection and reversible de-identification of Spanish medical text  *)
(* (phi_detector_enhanced.py): pattern registry, span matcher, overlap     *)
(* resolver, sanitizer, restorer and audit log.                            *)
(*                                                                         *)
(* A text is a sequence of one-character strings.  Offsets are Python's:   *)
(* a span [start,end) covers the characters txt[start+1] .. txt[end].      *)
(* Confidences are kept in hundredths (1.0 is 100, 0.95 is 95).            *)
(***************************************************************************)
EXTENDS Integers, Sequences, FiniteSets, TLC

(***************************************************************************)
(* Characters and character classes of the regular expressions.            *)
(***************************************************************************)
UpperSeq ==
  <<"A","B","C","D","E","F","G","H","I","J","K","L","M","N","O","P","Q","R",
    "S","T","U","V","W","X","Y","Z","Á","É","Í","Ó","Ú","Ñ">>
LowerSeq ==
  <<"a","b","c","d","e","f","g","h","i","j","k","l","m","n","o","p","q","r",
    "s","t","u","v","w","x","y","z","á","é","í","ó","ú","ñ">>
AsciiUpper == {UpperSeq[k] : k \in 1..26}
AsciiLower == {LowerSeq[k] : k \in 1..26}
AccentUpper == {UpperSeq[k] : k \in 27..32}
AccentLower == {LowerSeq[k] : k \in 27..32}
Digit == {"0","1","2","3","4","5","6","7","8","9"}
Space == {" ", "\n", "\t"}
WordChar == AsciiUpper \cup AsciiLower \cup AccentUpper \cup AccentLower
              \cup Digit \cup {"_"}

\* str.lower() / str.upper() on one character
LowerOf == [c \in {UpperSeq[k] : k \in 1..32} |->
              LowerSeq[CHOOSE k \in 1..32 : UpperSeq[k] = c]]
UpperOf == [c \in {LowerSeq[k] : k \in 1..32} |->
              UpperSeq[CHOOSE k \in 1..32 : LowerSeq[k] = c]]
ToLower(c) == IF c \in DOMAIN LowerOf THEN LowerOf[c] ELSE c
ToUpper(c) == IF c \in DOMAIN UpperOf THEN UpperOf[c] ELSE c

RECURSIVE UpperStr(_)
UpperStr(s) == IF s = <<>> THEN <<>> ELSE <<ToUpper(Head(s))>> \o UpperStr(Tail(s))

(***************************************************************************)
(* Regular expressions as syntax trees, and a backtracking matcher with    *)
(* the semantics of Python's re module: alternatives are tried in priority *)
(* order (left alternative first, greedy repetition longest first, lazy    *)
(* repetition shortest first) and the first complete match is the match.   *)
(* The matcher works on a stack of expressions still to be matched; its    *)
(* state is <<i, gs, ge>>: the next position to read (1-based) and the     *)
(* bounds of group 1.  No repeated expression of the registry can match    *)
(* the empty string.                                                       *)
(***************************************************************************)
Chr(cs)        == [t |-> "chr", cs |-> cs, neg |-> FALSE]
NotChr(cs)     == [t |-> "chr", cs |-> cs, neg |-> TRUE]
Lit(s)         == [t |-> "lit", s |-> s]
WB             == [t |-> "wb"]
Cat(xs)        == [t |-> "cat", xs |-> xs]
Alt(xs)        == [t |-> "alt", xs |-> xs]
Rep(x, lo, hi) == [t |-> "rep", x |-> x, lo |-> lo, hi |-> hi, lazy |-> FALSE]
LazyRep(x, lo, hi) == [t |-> "rep", x |-> x, lo |-> lo, hi |-> hi, lazy |-> TRUE]
Grp(x)         == [t |-> "grp", x |-> x]
GrpEnd(gs)     == [t |-> "grpend", gs |-> gs]
Inf            == 1000000
Star(x)        == Rep(x, 0, Inf)
Plus(x)        == Rep(x, 1, Inf)
Opt(x)         == Rep(x, 0, 1)

Max(a, b) == IF a >= b THEN a ELSE b
Min(a, b) == IF a <= b THEN a ELSE b
SetMin(S) == CHOOSE x \in S : \A y \in S : x <= y

CharEq(a, b, ic) == IF ic THEN ToLower(a) = ToLower(b) ELSE a = b
InClass(c, n, ic) ==
  LET in == IF ic THEN c \in n.cs \/ ToLower(c) \in n.cs \/ ToUpper(c) \in n.cs
                  ELSE c \in n.cs
  IN  IF n.neg THEN ~in ELSE in

IsWordAt(txt, i) == i >= 1 /\ i <= Len(txt) /\ txt[i] \in WordChar
\* \b before the character at 1-based position i
AtBoundary(txt, i) == IsWordAt(txt, i - 1) # IsWordAt(txt, i)

LitAt(txt, i, s, ic) ==
  /\ i + Len(s) - 1 <= Len(txt)
  /\ \A k \in 1..Len(s) : CharEq(txt[i + k - 1], s[k], ic)

\* length of the run of class characters from position i, at most hi
RunLen(txt, i, n, ic, hi) ==
  LET lim == Min(hi, Len(txt) - i + 1)
      bad == {k \in 0..(lim - 1) : ~InClass(txt[i + k], n, ic)}
  IN  IF bad = {} THEN Max(lim, 0) ELSE SetMin(bad)

\* Match(stack, ...): <<>> when the expressions of the stack cannot be
\* matched one after the other from state st, else <<the final state>> of
\* the first way to match them
RECURSIVE Match(_, _, _, _)
RECURSIVE MatchAlt(_, _, _, _, _, _)

Match(stack, txt, st, ic) ==
  IF stack = <<>> THEN <<st>>
  ELSE
  LET n    == Head(stack)
      rest == Tail(stack)
      i    == st[1]
  IN
  CASE n.t = "chr" ->
         IF i <= Len(txt) /\ InClass(txt[i], n, ic)
           THEN Match(rest, txt, <<i + 1, st[2], st[3]>>, ic) ELSE <<>>
    [] n.t = "lit" ->
         IF LitAt(txt, i, n.s, ic)
           THEN Match(rest, txt, <<i + Len(n.s), st[2], st[3]>>, ic) ELSE <<>>
    [] n.t = "wb"  -> IF AtBoundary(txt, i) THEN Match(rest, txt, st, ic) ELSE <<>>
    [] n.t = "cat" -> Match(n.xs \o rest, txt, st, ic)
    [] n.t = "alt" -> MatchAlt(n.xs, 1, rest, txt, st, ic)
    [] n.t = "grp" -> Match(<<n.x, GrpEnd(i)>> \o rest, txt, st, ic)
    [] n.t = "grpend" -> Match(rest, txt, <<i, n.gs, i>>, ic)
    [] n.t = "rep" ->
         IF n.x.t = "chr"
           THEN \* a repeated character class: the d-th choice gives up d
                \* characters of the run (greedy) or takes d more (lazy);
                \* the first choice after which the rest matches is taken
                LET run  == RunLen(txt, i, n.x, ic, n.hi)
                    tries == {<<d, Match(rest, txt,
                                         <<IF n.lazy THEN i + n.lo + d ELSE i + run - d,
                                           st[2], st[3]>>, ic)>> :
                                d \in 0..(run - n.lo)}
                    good == {p \in tries : p[2] # <<>>}
                IN  IF good = {} THEN <<>>
                    ELSE (CHOOSE p \in good : \A q \in good : p[1] <= q[1])[2]
           ELSE LET again == [n EXCEPT !.lo = Max(n.lo - 1, 0),
                                       !.hi = IF n.hi = Inf THEN Inf ELSE n.hi - 1]
                    more == IF n.hi > 0
                              THEN Match(<<n.x, again>> \o rest, txt, st, ic) ELSE <<>>
                    stop == IF n.lo = 0 THEN Match(rest, txt, st, ic) ELSE <<>>
                IN  IF n.lazy THEN (IF stop # <<>> THEN stop ELSE more)
                              ELSE (IF more # <<>> THEN more ELSE stop)

\* xs[k] | xs[k+1] | ... followed by rest
MatchAlt(xs, k, rest, txt, st, ic) ==
  IF k > Len(xs) THEN <<>>
  ELSE LET r == Match(<<xs[k]>> \o rest, txt, st, ic)
       IN  IF r # <<>> THEN r ELSE MatchAlt(xs, k + 1, rest, txt, st, ic)

\* pattern.match at 1-based position i: <<>> or <<the match>>, a match being
\* [start, end, gs, ge] in Python offsets
MatchAt(re, txt, i) ==
  LET r == Match(<<re.ast>>, txt, <<i, 0, 0>>, re.ic)
  IN  IF r = <<>> THEN <<>>
      ELSE << [start |-> i - 1, end |-> r[1][1] - 1,
               gs |-> r[1][2] - 1, ge |-> r[1][3] - 1] >>

\* pattern.finditer(text): the leftmost match, then the leftmost match that
\* starts at or after its end, and so on.  Whether the pattern matches at a
\* position does not depend on where the search resumed, so the matches at
\* all positions are computed once (found); i is a Python offset.
RECURSIVE FindFrom(_, _)
FindFrom(found, i) ==
  LET later == {m \in found : m.start >= i}
  IN  IF later = {} THEN <<>>
      ELSE LET m == CHOOSE m \in later : \A o \in later : m.start <= o.start
           IN  <<m>> \o FindFrom(found, IF m.end > m.start THEN m.end ELSE m.start + 1)
FindIter(re, txt) ==
  LET tried == {MatchAt(re, txt, j) : j \in 1..(Len(txt) + 1)}
  IN  FindFrom({r[1] : r \in tried \ {<<>>}}, 0)

Slice(txt, start, end) == SubSeq(txt, start + 1, end)

(***************************************************************************)
(* The PHI types and the pattern registry: _build_priority_patterns.       *)
(***************************************************************************)
\* class PHIType(Enum): member name |-> value
PHIType ==
  [NAME |-> <<"n","a","m","e">>,
   DATE |-> <<"d","a","t","e">>,
   PHONE |-> <<"p","h","o","n","e">>,
   FAX |-> <<"f","a","x">>,
   EMAIL |-> <<"e","m","a","i","l">>,
   SSN |-> <<"s","s","n">>,
   MRN |-> <<"m","e","d","i","c","a","l","_","r","e","c","o","r","d","_","n","u","m","b","e","r">>,
   HEALTH_PLAN |-> <<"h","e","a","l","t","h","_","p","l","a","n","_","n","u","m","b","e","r">>,
   ACCOUNT |-> <<"a","c","c","o","u","n","t","_","n","u","m","b","e","r">>,
   LICENSE |-> <<"l","i","c","e","n","s","e","_","n","u","m","b","e","r">>,
   VEHICLE |-> <<"v","e","h","i","c","l","e","_","i","d","e","n","t","i","f","i","e","r">>,
   DEVICE |-> <<"d","e","v","i","c","e","_","i","d","e","n","t","i","f","i","e","r">>,
   URL |-> <<"w","e","b","_","u","r","l">>,
   IP |-> <<"i","p","_","a","d","d","r","e","s","s">>,
   BIOMETRIC |-> <<"b","i","o","m","e","t","r","i","c","_","i","d","e","n","t","i","f","i","e","r">>,
   PHOTO |-> <<"p","h","o","t","o","_","i","m","a","g","e">>,
   GEOGRAPHIC |-> <<"g","e","o","g","r","a","p","h","i","c","_","l","o","c","a","t","i","o","n">>,
   AGE_OVER_89 |-> <<"a","g","e","_","o","v","e","r","_","8","9">>,
   CURP |-> <<"c","u","r","p">>,
   RFC |-> <<"r","f","c">>,
   NSS |-> <<"n","s","s","_","i","m","s","s">>,
   INE |-> <<"i","n","e","_","i","f","e">>]

PHITypeValue(name) == PHIType[name]

NameWord == Cat(<<Chr(AsciiUpper \cup AccentUpper), Plus(Chr(AsciiLower \cup AccentLower))>>)
\* CURP: \bCURP[:\s]*([A-Z]{4}\d{6}[HM][A-Z]{5}[A-Z0-9]\d)\b, IGNORECASE
PatCURP ==
  [phi_type |-> "CURP", ic |-> TRUE, confidence |-> 100, ast |->
    Cat(<<WB, Lit(<<"C","U","R","P">>), Star(Chr({":"} \cup Space)),
      Grp(Cat(<<Rep(Chr(AsciiUpper), 4, 4), Rep(Chr(Digit), 6, 6), Chr({"H","M"}),
                Rep(Chr(AsciiUpper), 5, 5), Chr(AsciiUpper \cup Digit), Chr(Digit)>>)),
      WB>>)]
\* RFC: \bRFC[:\s]*([A-Z&Ñ]{3,4}\d{6}[A-Z0-9]{3})\b, IGNORECASE
PatRFC ==
  [phi_type |-> "RFC", ic |-> TRUE, confidence |-> 100, ast |->
    Cat(<<WB, Lit(<<"R","F","C">>), Star(Chr({":"} \cup Space)),
      Grp(Cat(<<Rep(Chr(AsciiUpper \cup {"&","Ñ"}), 3, 4), Rep(Chr(Digit), 6, 6),
                Rep(Chr(AsciiUpper \cup Digit), 3, 3)>>)),
      WB>>)]
\* NSS: \b(?:NSS|IMSS|SEGURO\s+SOCIAL)[:\s#]*(\d{11})\b, IGNORECASE
PatNSS ==
  [phi_type |-> "NSS", ic |-> TRUE, confidence |-> 95, ast |->
    Cat(<<WB, Alt(<<Lit(<<"N","S","S">>),
        Lit(<<"I","M","S","S">>),
        Cat(<<Lit(<<"S","E","G","U","R","O">>), Plus(Chr(Space)), Lit(<<"S","O","C","I","A","L">>)>>)>>),
      Star(Chr({":","#"} \cup Space)), Grp(Rep(Chr(Digit), 11, 11)), WB>>)]
\* MRN: \b(?:NHC|HC|HISTORIA\s+CLÍNICA|EXPEDIENTE|FOLIO\s+MÉDICO|FICHA\s+MÉDICA)[:\s#\-]*([A-Z0-9]{2,}[\-]?[A-Z0-9]+)\b, IGNORECASE
PatMRN ==
  [phi_type |-> "MRN", ic |-> TRUE, confidence |-> 90, ast |->
    Cat(<<WB, Alt(<<Lit(<<"N","H","C">>),
        Lit(<<"H","C">>),
        Cat(<<Lit(<<"H","I","S","T","O","R","I","A">>), Plus(Chr(Space)), Lit(<<"C","L","Í","N","I","C","A">>)>>),
        Lit(<<"E","X","P","E","D","I","E","N","T","E">>),
        Cat(<<Lit(<<"F","O","L","I","O">>), Plus(Chr(Space)), Lit(<<"M","É","D","I","C","O">>)>>),
        Cat(<<Lit(<<"F","I","C","H","A">>), Plus(Chr(Space)), Lit(<<"M","É","D","I","C","A">>)>>)>>),
      Star(Chr({":","#","-"} \cup Space)),
      Grp(Cat(<<Rep(Chr(AsciiUpper \cup Digit), 2, Inf), Opt(Chr({"-"})),
                Plus(Chr(AsciiUpper \cup Digit))>>)), WB>>)]
\* HEALTH_PLAN: \b(?:PÓLIZA|POLIZA|AFILIACIÓN|AFILIACION|CERTIFICADO\s+DE\s+SEGURO|CONTRATO\s+DE\s+SEGURO)[:\s#\-]*([A-Z0-9\-]{5,})\b, IGNORECASE
PatHealthPlan ==
  [phi_type |-> "HEALTH_PLAN", ic |-> TRUE, confidence |-> 85, ast |->
    Cat(<<WB, Alt(<<Lit(<<"P","Ó","L","I","Z","A">>),
        Lit(<<"P","O","L","I","Z","A">>),
        Lit(<<"A","F","I","L","I","A","C","I","Ó","N">>),
        Lit(<<"A","F","I","L","I","A","C","I","O","N">>),
        Cat(<<Lit(<<"C","E","R","T","I","F","I","C","A","D","O">>), Plus(Chr(Space)), Lit(<<"D","E">>), Plus(Chr(Space)), Lit(<<"S","E","G","U","R","O">>)>>),
        Cat(<<Lit(<<"C","O","N","T","R","A","T","O">>), Plus(Chr(Space)), Lit(<<"D","E">>), Plus(Chr(Space)), Lit(<<"S","E","G","U","R","O">>)>>)>>),
      Star(Chr({":","#","-"} \cup Space)),
      Grp(Rep(Chr(AsciiUpper \cup Digit \cup {"-"}), 5, Inf)), WB>>)]
\* NAME after a patient keyword: \b(?:PACIENTE|NOMBRE\s+DEL?\s+PACIENTE|TITULAR|BENEFICIARIO|ASEGURADO|NOMBRE\s+COMPLETO)[:\s]*(Name(?:\s+Name){1,4})\b
PatNamePatient ==
  [phi_type |-> "NAME", ic |-> FALSE, confidence |-> 95, ast |->
    Cat(<<WB, Alt(<<Lit(<<"P","A","C","I","E","N","T","E">>),
        Cat(<<Lit(<<"N","O","M","B","R","E">>), Plus(Chr(Space)), Lit(<<"D","E">>), Opt(Chr({"L"})), Plus(Chr(Space)), Lit(<<"P","A","C","I","E","N","T","E">>)>>),
        Lit(<<"T","I","T","U","L","A","R">>),
        Lit(<<"B","E","N","E","F","I","C","I","A","R","I","O">>),
        Lit(<<"A","S","E","G","U","R","A","D","O">>),
        Cat(<<Lit(<<"N","O","M","B","R","E">>), Plus(Chr(Space)), Lit(<<"C","O","M","P","L","E","T","O">>)>>)>>),
      Star(Chr({":"} \cup Space)),
      Grp(Cat(<<NameWord, Rep(Cat(<<Plus(Chr(Space)), NameWord>>), 1, 4)>>)), WB>>)]
\* NAME after a doctor keyword: \b(?:DR\.?|DRA\.?|MÉDICO|DOCTOR|DOCTORA|MÉDICO\s+TRATANTE|ATENDIÓ)[:\s]*(Name(?:\s+Name){1,3})\b
PatNameDoctor ==
  [phi_type |-> "NAME", ic |-> FALSE, confidence |-> 90, ast |->
    Cat(<<WB, Alt(<<Cat(<<Lit(<<"D","R">>), Opt(Chr({"."}))>>),
        Cat(<<Lit(<<"D","R","A">>), Opt(Chr({"."}))>>),
        Lit(<<"M","É","D","I","C","O">>),
        Lit(<<"D","O","C","T","O","R">>),
        Lit(<<"D","O","C","T","O","R","A">>),
        Cat(<<Lit(<<"M","É","D","I","C","O">>), Plus(Chr(Space)), Lit(<<"T","R","A","T","A","N","T","E">>)>>),
        Lit(<<"A","T","E","N","D","I","Ó">>)>>),
      Star(Chr({":"} \cup Space)),
      Grp(Cat(<<NameWord, Rep(Cat(<<Plus(Chr(Space)), NameWord>>), 1, 3)>>)), WB>>)]
\* PHONE: \b(?:TEL\.?|TELÉFONO|CEL\.?|CELULAR|MÓVIL|CONTACTO)[:\s]*(?:\+52\s* )?(\d{2,3}[-.\s]?\d{3,4}[-.\s]?\d{4})\b, IGNORECASE
PatPhone ==
  [phi_type |-> "PHONE", ic |-> TRUE, confidence |-> 95, ast |->
    Cat(<<WB, Alt(<<Cat(<<Lit(<<"T","E","L">>), Opt(Chr({"."}))>>),
        Lit(<<"T","E","L","É","F","O","N","O">>),
        Cat(<<Lit(<<"C","E","L">>), Opt(Chr({"."}))>>),
        Lit(<<"C","E","L","U","L","A","R">>),
        Lit(<<"M","Ó","V","I","L">>),
        Lit(<<"C","O","N","T","A","C","T","O">>)>>),
      Star(Chr({":"} \cup Space)), Opt(Cat(<<Lit(<<"+","5","2">>), Star(Chr(Space))>>)),
      Grp(Cat(<<Rep(Chr(Digit), 2, 3), Opt(Chr({"-","."} \cup Space)), Rep(Chr(Digit), 3, 4), Opt(Chr({"-","."} \cup Space)),
                Rep(Chr(Digit), 4, 4)>>)), WB>>)]
\* EMAIL: \b([A-Za-z0-9._%+-]+@[A-Za-z0-9.-]+\.[A-Z|a-z]{2,})\b
PatEmail ==
  [phi_type |-> "EMAIL", ic |-> FALSE, confidence |-> 100, ast |->
    Cat(<<WB, Grp(Cat(<<Plus(Chr(AsciiUpper \cup AsciiLower \cup Digit \cup {".","_","%","+","-"})),
                    Chr({"@"}), Plus(Chr(AsciiUpper \cup AsciiLower \cup Digit \cup {".","-"})),
                    Chr({"."}), Rep(Chr(AsciiUpper \cup AsciiLower \cup {"|"}), 2, Inf)>>)), WB>>)]
\* DATE: \b(\d{1,2}[/-]\d{1,2}[/-](?:\d{4}|\d{2}))\b
PatDateNumeric ==
  [phi_type |-> "DATE", ic |-> FALSE, confidence |-> 80, ast |->
    Cat(<<WB, Grp(Cat(<<Rep(Chr(Digit), 1, 2), Chr({"/","-"}), Rep(Chr(Digit), 1, 2),
                    Chr({"/","-"}),
                    Alt(<<Rep(Chr(Digit), 4, 4), Rep(Chr(Digit), 2, 2)>>)>>)), WB>>)]
\* DATE written out: \b(\d{1,2}\s+(?:DE\s+)?(?:ENERO|...|DICIEMBRE)\s+(?:DE\s+)?\d{4})\b, IGNORECASE
PatDateWritten ==
  [phi_type |-> "DATE", ic |-> TRUE, confidence |-> 95, ast |->
    Cat(<<WB, Grp(Cat(<<Rep(Chr(Digit), 1, 2), Plus(Chr(Space)), Opt(Cat(<<Lit(<<"D","E">>), Plus(Chr(Space))>>)),
      Alt(<<Lit(<<"E","N","E","R","O">>),
        Lit(<<"F","E","B","R","E","R","O">>),
        Lit(<<"M","A","R","Z","O">>),
        Lit(<<"A","B","R","I","L">>),
        Lit(<<"M","A","Y","O">>),
        Lit(<<"J","U","N","I","O">>),
        Lit(<<"J","U","L","I","O">>),
        Lit(<<"A","G","O","S","T","O">>),
        Lit(<<"S","E","P","T","I","E","M","B","R","E">>),
        Lit(<<"O","C","T","U","B","R","E">>),
        Lit(<<"N","O","V","I","E","M","B","R","E">>),
        Lit(<<"D","I","C","I","E","M","B","R","E">>)>>),
      Plus(Chr(Space)), Opt(Cat(<<Lit(<<"D","E">>), Plus(Chr(Space))>>)), Rep(Chr(Digit), 4, 4)>>)), WB>>)]
\* GEOGRAPHIC street address: (?:CALLE|AV\.?|AVENIDA|BLVD\.?|BOULEVARD|CARRETERA|CAMINO|CALZADA)\s+([^,\n]{5,50})(?:.*?C\.?P\.?\s*\d{5})?, IGNORECASE
PatAddress ==
  [phi_type |-> "GEOGRAPHIC", ic |-> TRUE, confidence |-> 70, ast |->
    Cat(<<Alt(<<Lit(<<"C","A","L","L","E">>),
        Cat(<<Lit(<<"A","V">>), Opt(Chr({"."}))>>),
        Lit(<<"A","V","E","N","I","D","A">>),
        Cat(<<Lit(<<"B","L","V","D">>), Opt(Chr({"."}))>>),
        Lit(<<"B","O","U","L","E","V","A","R","D">>),
        Lit(<<"C","A","R","R","E","T","E","R","A">>),
        Lit(<<"C","A","M","I","N","O">>),
        Lit(<<"C","A","L","Z","A","D","A">>)>>),
      Plus(Chr(Space)), Grp(Rep(NotChr({",","\n"}), 5, 50)),
      Opt(Cat(<<LazyRep(NotChr({"\n"}), 0, Inf), Chr({"C"}), Opt(Chr({"."})), Chr({"P"}),
                Opt(Chr({"."})), Star(Chr(Space)), Rep(Chr(Digit), 5, 5)>>))>>)]
\* GEOGRAPHIC postal code: \bC\.?P\.?\s*(\d{5})\b, IGNORECASE
PatZip ==
  [phi_type |-> "GEOGRAPHIC", ic |-> TRUE, confidence |-> 90, ast |->
    Cat(<<WB, Chr({"C"}), Opt(Chr({"."})), Chr({"P"}), Opt(Chr({"."})), Star(Chr(Space)),
      Grp(Rep(Chr(Digit), 5, 5)), WB>>)]
\* AGE_OVER_89: \b(?:EDAD|AÑOS)[:\s]*((?:9\d|[1-9]\d{2}))\s*(?:AÑOS)?\b, IGNORECASE
PatAge ==
  [phi_type |-> "AGE_OVER_89", ic |-> TRUE, confidence |-> 95, ast |->
    Cat(<<WB, Alt(<<Lit(<<"E","D","A","D">>),
        Lit(<<"A","Ñ","O","S">>)>>), Star(Chr({":"} \cup Space)),
      Grp(Alt(<<Cat(<<Chr({"9"}), Chr(Digit)>>),
                Cat(<<Chr(Digit \ {"0"}), Rep(Chr(Digit), 2, 2)>>)>>)),
      Star(Chr(Space)), Opt(Lit(<<"A","Ñ","O","S">>)), WB>>)]
\* INE: \b(?:INE|IFE|ELECTOR|CREDENCIAL)[:\s#]*(\d{13,18})\b, IGNORECASE
PatINE ==
  [phi_type |-> "INE", ic |-> TRUE, confidence |-> 85, ast |->
    Cat(<<WB, Alt(<<Lit(<<"I","N","E">>),
        Lit(<<"I","F","E">>),
        Lit(<<"E","L","E","C","T","O","R">>),
        Lit(<<"C","R","E","D","E","N","C","I","A","L">>)>>),
      Star(Chr({":","#"} \cup Space)), Grp(Rep(Chr(Digit), 13, 18)), WB>>)]
\* LICENSE: \b(?:CÉDULA\s+PROFESIONAL|CED\.?\s+PROF\.?|LICENCIA|MATRÍCULA)[:\s#]*(\d{5,10})\b, IGNORECASE
PatLicense ==
  [phi_type |-> "LICENSE", ic |-> TRUE, confidence |-> 80, ast |->
    Cat(<<WB, Alt(<<Cat(<<Lit(<<"C","É","D","U","L","A">>), Plus(Chr(Space)), Lit(<<"P","R","O","F","E","S","I","O","N","A","L">>)>>),
        Cat(<<Lit(<<"C","E","D">>), Opt(Chr({"."})), Plus(Chr(Space)), Lit(<<"P","R","O","F">>), Opt(Chr({"."}))>>),
        Lit(<<"L","I","C","E","N","C","I","A">>),
        Lit(<<"M","A","T","R","Í","C","U","L","A">>)>>),
      Star(Chr({":","#"} \cup Space)), Grp(Rep(Chr(Digit), 5, 10)), WB>>)]
\* URL: (https?://[^\s<>"{}|\\^BACKTICK\[\]]+); the backtick cannot be written in
\* a TLA+ string and is no character of any text of this model
PatURL ==
  [phi_type |-> "URL", ic |-> FALSE, confidence |-> 100, ast |->
    Grp(Cat(<<Lit(<<"h","t","t","p">>), Opt(Chr({"s"})), Lit(<<":","/","/">>),
      Plus(NotChr(Space \cup {"<",">","\"","{","}","|","\\","^","[","]"}))>>))]
\* IP: \b((?:\d{1,3}\.){3}\d{1,3})\b
PatIP ==
  [phi_type |-> "IP", ic |-> FALSE, confidence |-> 90, ast |->
    Cat(<<WB, Grp(Cat(<<Rep(Cat(<<Rep(Chr(Digit), 1, 3), Chr({"."})>>), 3, 3),
                    Rep(Chr(Digit), 1, 3)>>)), WB>>)]

\* the registry, in registration order
Patterns ==
  <<PatCURP, PatRFC, PatNSS, PatMRN, PatHealthPlan, PatNamePatient,
    PatNameDoctor, PatPhone, PatEmail, PatDateNumeric, PatDateWritten,
    PatAddress, PatZip, PatAge, PatINE, PatLicense, PatURL, PatIP>>

(***************************************************************************)
(* Span matcher and overlap resolver: detect_phi, _filter_overlaps.        *)
(***************************************************************************)
\* PHIMatch(...) for one regex match m of pattern p: value is group 1, the
\* span is the span of the whole match, context 20 characters around it
MakeMatch(p, txt, m) ==
  [phi_type   |-> p.phi_type,
   value      |-> Slice(txt, m.gs, m.ge),
   start      |-> m.start,
   end        |-> m.end,
   confidence |-> p.confidence,
   context    |-> Slice(txt, Max(0, m.start - 20), Min(Len(txt), m.end + 20))]

\* the candidates of one rule, in finditer order
RuleMatches(p, txt) ==
  LET ms == FindIter(p, txt)
  IN  [k \in 1..Len(ms) |-> MakeMatch(p, txt, ms[k])]

\* all_matches: the candidates of every rule, rule after rule
RECURSIVE AllMatches(_, _)
AllMatches(txt, k) ==
  IF k > Len(Patterns) THEN <<>>
  ELSE RuleMatches(Patterns[k], txt) \o AllMatches(txt, k + 1)

\* key=lambda x: x.start, the confidence left out
ByStartOnly(a, b) == a.start < b.start
\* key=lambda x: (-x.confidence, x.start)
ByConfidenceThenStart(a, b) ==
  \/ a.confidence > b.confidence
  \/ a.confidence = b.confidence /\ a.start < b.start
\* key=lambda x: x.start
ByStart(a, b) == a.start < b.start
KeyLess(key, a, b) ==
  IF key = "confidence" THEN ByConfidenceThenStart(a, b) ELSE ByStart(a, b)

\* an element goes before the elements of equal key
RECURSIVE InsertSortedTiesFirst(_, _, _)
InsertSortedTiesFirst(sorted, x, key) ==
  IF sorted = <<>> THEN <<x>>
  ELSE LET last == sorted[Len(sorted)]
       IN  IF ~KeyLess(key, last, x)
             THEN InsertSortedTiesFirst(SubSeq(sorted, 1, Len(sorted) - 1), x, key)
                    \o <<last>>
             ELSE sorted \o <<x>>
\* list.sort(key=...) is stable: an element goes after the last element
\* whose key is not greater
RECURSIVE InsertSorted(_, _, _)
InsertSorted(sorted, x, key) ==
  IF sorted = <<>> THEN <<x>>
  ELSE LET last == sorted[Len(sorted)]
       IN  IF KeyLess(key, x, last)
             THEN InsertSorted(SubSeq(sorted, 1, Len(sorted) - 1), x, key) \o <<last>>
             ELSE sorted \o <<x>>
RECURSIVE StableSort(_, _)
StableSort(xs, key) ==
  IF xs = <<>> THEN <<>>
  ELSE InsertSorted(StableSort(SubSeq(xs, 1, Len(xs) - 1), key), xs[Len(xs)], key)

\* only the first position of a span
PositionsFirstOnly(m) == {m.start}
Positions(m) == m.start .. (m.end - 1)

\* the loop left at the first candidate that overlaps (break for continue)
RECURSIVE FilterLoopUntilOverlap(_, _, _, _)
FilterLoopUntilOverlap(ms, k, filtered, used_positions) ==
  IF k > Len(ms) THEN filtered
  ELSE IF Positions(ms[k]) \cap used_positions = {}
         THEN FilterLoopUntilOverlap(ms, k + 1, filtered \o <<ms[k]>>,
                                     used_positions \cup Positions(ms[k]))
         ELSE filtered

\* the loop of _filter_overlaps over the sorted candidates
RECURSIVE FilterLoop(_, _, _, _)
FilterLoop(ms, k, filtered, used_positions) ==
  IF k > Len(ms) THEN filtered
  ELSE IF Positions(ms[k]) \cap used_positions = {}
         THEN FilterLoop(ms, k + 1, filtered \o <<ms[k]>>,
                         used_positions \cup Positions(ms[k]))
         ELSE FilterLoop(ms, k + 1, filtered, used_positions)

FilterOverlaps(matches) ==
  IF matches = <<>> THEN <<>>
  ELSE FilterLoop(StableSort(matches, "confidence"), 1, <<>>, {})

\* the resolved matches returned in the order of _filter_overlaps, by
\* confidence, the sort by start left out
ResolvedUnsorted(all_matches) == FilterOverlaps(all_matches)
\* filtered_matches = self._filter_overlaps(all_matches), then
\* filtered_matches.sort(key=lambda x: x.start)
Resolved(all_matches) == StableSort(FilterOverlaps(all_matches), "start")

\* the list detect_phi returns
DetectPhi(txt) == Resolved(AllMatches(txt, 1))

(***************************************************************************)
(* Sanitizer and restorer: sanitize_text, restore_phi.                     *)
(***************************************************************************)
DigitSeq == <<"0","1","2","3","4","5","6","7","8","9">>
\* str(n) of a non-negative integer
RECURSIVE IntToStr(_)
IntToStr(n) ==
  IF n < 10 THEN <<DigitSeq[n + 1]>>
  ELSE IntToStr(n \div 10) \o <<DigitSeq[(n % 10) + 1]>>

\* f"[{match.phi_type.value.upper()}_{len(phi_map)}]"
Placeholder(phi_type, ordinal) ==
  <<"[">> \o UpperStr(PHITypeValue(phi_type)) \o <<"_">> \o IntToStr(ordinal) \o <<"]">>

\* a dict is the sequence of its items in insertion order; d[key] = value
\* overwrites the value of a key that is present and appends otherwise
HasKey(d, key) == \E k \in 1..Len(d) : d[k].key = key
DictSet(d, key, value) ==
  IF HasKey(d, key)
    THEN [k \in 1..Len(d) |-> IF d[k].key = key THEN [key |-> key, value |-> value]
                                               ELSE d[k]]
    ELSE d \o <<[key |-> key, value |-> value]>>

\* the ordinal counted per PHI type
SanitizeStepPerType(st, match) ==
  LET same == {k \in 1..Len(st.phi_map) : st.phi_map[k].value.phi_type = match.phi_type}
      placeholder == Placeholder(match.phi_type, Cardinality(same))
  IN  [phi_map   |-> DictSet(st.phi_map, placeholder, match),
       sanitized |-> Slice(st.sanitized, 0, match.start) \o placeholder
                       \o Slice(st.sanitized, match.end, Len(st.sanitized))]
\* the character before the span replaced with it
SanitizeStepWide(st, match) ==
  LET placeholder == Placeholder(match.phi_type, Len(st.phi_map))
  IN  [phi_map   |-> DictSet(st.phi_map, placeholder, match),
       sanitized |-> Slice(st.sanitized, 0, Max(match.start - 1, 0)) \o placeholder
                       \o Slice(st.sanitized, match.end, Len(st.sanitized))]
\* one iteration of the loop of sanitize_text, st = [sanitized, phi_map]
SanitizeStep(st, match) ==
  LET placeholder == Placeholder(match.phi_type, Len(st.phi_map))
  IN  [phi_map   |-> DictSet(st.phi_map, placeholder, match),
       sanitized |-> Slice(st.sanitized, 0, match.start) \o placeholder
                       \o Slice(st.sanitized, match.end, Len(st.sanitized))]

\* for match in reversed(matches): k runs from Len(matches) down to 1
RECURSIVE SanitizeLoop(_, _, _)
SanitizeLoop(matches, k, st) ==
  IF k = 0 THEN st
  ELSE SanitizeLoop(matches, k - 1, SanitizeStep(st, matches[k]))

\* sanitize_text giving up the text when detect_phi found nothing
SanitizeNothingOnEmpty(txt, matches) ==
  IF matches = <<>> THEN [sanitized |-> <<>>, phi_map |-> <<>>]
  ELSE SanitizeLoop(matches, Len(matches), [sanitized |-> txt, phi_map |-> <<>>])
\* sanitize_text, given the matches detect_phi(text) returned
Sanitize(txt, matches) ==
  SanitizeLoop(matches, Len(matches), [sanitized |-> txt, phi_map |-> <<>>])

\* str.replace(old, new), old not empty: every occurrence, left to right,
\* not overlapping
RECURSIVE ReplaceFrom(_, _, _, _, _)
ReplaceFrom(s, occ, i, old, new) ==
  LET later == {j \in occ : j >= i}
  IN  IF later = {} THEN SubSeq(s, i, Len(s))
      ELSE LET j == SetMin(later)
           IN  SubSeq(s, i, j - 1) \o new \o ReplaceFrom(s, occ, j + Len(old), old, new)
Replace(s, old, new) ==
  ReplaceFrom(s, {j \in 1..(Len(s) - Len(old) + 1) : SubSeq(s, j, j + Len(old) - 1) = old},
              1, old, new)

\* the loop of restore_phi over phi_map.items()
RECURSIVE RestoreLoop(_, _, _)
RestoreLoop(restored, phi_map, k) ==
  IF k > Len(phi_map) THEN restored
  ELSE RestoreLoop(Replace(restored, phi_map[k].key, phi_map[k].value.value),
                   phi_map, k + 1)

RestorePhi(sanitized_text, phi_map) == RestoreLoop(sanitized_text, phi_map, 1)

(***************************************************************************)
(* Audit records: _log_detection, _log_phi_handling; generate_report.      *)
(***************************************************************************)
HexSeq == <<"0","1","2","3","4","5","6","7","8","9","a","b","c","d","e","f">>
PunctSeq ==
  <<" ",":","/",",",".","[","]","_","-","#","&","%","+","@","|","<",">","{","}",
    "^","\\","\n","\t","*">>
CodeSeq == UpperSeq \o LowerSeq \o DigitSeq \o PunctSeq
CodeOf == [c \in {CodeSeq[k] : k \in 1..Len(CodeSeq)} |->
             CHOOSE k \in 1..Len(CodeSeq) : CodeSeq[k] = c]
HashPrefixLen == 16

\* the sum of (position + w) * character code over txt[lo..hi], modulo 2^16
RECURSIVE WeightedSum(_, _, _, _)
WeightedSum(txt, lo, hi, w) ==
  IF lo > hi THEN 0
  ELSE IF lo = hi THEN ((lo + w) * CodeOf[txt[lo]]) % 65536
  ELSE LET mid == (lo + hi) \div 2
       IN  (WeightedSum(txt, lo, mid, w) + WeightedSum(txt, mid + 1, hi, w)) % 65536

\* hashlib.sha256(text.encode()).hexdigest()[:16]: a digest, many texts to
\* one value, of HashPrefixLen hexadecimal digits
TextHash(txt) ==
  [k \in 1..HashPrefixLen |->
     HexSeq[((WeightedSum(txt, 1, Len(txt), k) + Len(txt) + k) % 16) + 1]]

\* list(set(...)): each element once, in an order the program does not fix
RECURSIVE SetToList(_)
SetToList(S) ==
  IF S = {} THEN <<>>
  ELSE LET x == CHOOSE x \in S : TRUE IN <<x>> \o SetToList(S \ {x})

HighConfidence(matches) ==
  Cardinality({k \in 1..Len(matches) : matches[k].confidence >= 90})

\* phi_count counting the types, not the matches
DetectionLogEntryTypeCount(txt, matches, now) ==
  [timestamp             |-> now,
   text_hash             |-> TextHash(txt),
   phi_types_found       |-> SetToList({PHITypeValue(matches[k].phi_type) :
                                          k \in 1..Len(matches)}),
   phi_count             |-> Cardinality({matches[k].phi_type : k \in 1..Len(matches)}),
   high_confidence_count |-> HighConfidence(matches)]
\* log_entry of _log_detection
DetectionLogEntry(txt, matches, now) ==
  [timestamp             |-> now,
   text_hash             |-> TextHash(txt),
   phi_types_found       |-> SetToList({PHITypeValue(matches[k].phi_type) :
                                          k \in 1..Len(matches)}),
   phi_count             |-> Len(matches),
   high_confidence_count |-> HighConfidence(matches)]

\* log_entry of MedicalDocumentProcessor._log_phi_handling
HandlingLogEntry(txt, phi_matches, operation, now, user) ==
  [timestamp     |-> now,
   operation     |-> operation,
   document_hash |-> TextHash(txt),
   phi_count     |-> Len(phi_matches),
   phi_types     |-> SetToList({PHITypeValue(phi_matches[k].phi_type) :
                                  k \in 1..Len(phi_matches)}),
   user          |-> user,
   purpose       |-> "medical_translation"]

\* match.value[:3] + "*" * (len(match.value) - 3)
Masked(value) ==
  [k \in 1..Len(value) |-> IF k <= 3 THEN value[k] ELSE "*"]

\* the types of the matches in order of first occurrence (keys of by_type)
RECURSIVE TypesInOrder(_, _, _)
TypesInOrder(matches, k, seen) ==
  IF k > Len(matches) THEN <<>>
  ELSE IF matches[k].phi_type \in seen THEN TypesInOrder(matches, k + 1, seen)
  ELSE <<matches[k].phi_type>>
         \o TypesInOrder(matches, k + 1, seen \cup {matches[k].phi_type})

OfType(matches, phi_type) == SelectSeq(matches, LAMBDA m : m.phi_type = phi_type)

\* generate_report: the report as its parts; at most 3 masked examples per
\* type and the number of further matches of the type
GenerateReport(matches) ==
  IF matches = <<>> THEN [empty |-> TRUE]
  ELSE LET types == TypesInOrder(matches, 1, {})
       IN  [empty  |-> FALSE,
            groups |-> [g \in 1..Len(types) |->
                          LET ms == OfType(matches, types[g])
                          IN  [phi_type |-> types[g],
                               examples |-> [k \in 1..Min(3, Len(ms)) |->
                                               [masked     |-> Masked(ms[k].value),
                                                confidence |-> ms[k].confidence]],
                               more     |-> Max(Len(ms) - 3, 0)]],
            total  |-> Len(matches),
            high_confidence |-> HighConfidence(matches)]

(***************************************************************************)
(* Documents: every concatenation of at most MaxSegs segments.             *)
(***************************************************************************)
SegCURP    == <<"C","U","R","P",":"," ","G","O","H","M","4","5","0","3","1","5","M","G","T","R","N","R","0","8">>
SegNSS     == <<" ","N","S","S",":"," ","1","2","3","4","5","6","7","8","9","0","1">>
SegCalle   == <<" ","C","a","l","l","e"," ">>
SegHidalgo == <<"H","i","d","a","l","g","o"," ">>
SegDate    == <<" ","1","2","/","0","3","/","2","0","2","5">>
Segments   == {SegCURP, SegNSS, SegCalle, SegHidalgo, SegDate}
MaxSegs    == 3

RECURSIVE TextsOf(_)
TextsOf(n) ==
  IF n = 0 THEN {<<>>}
  ELSE LET shorter == TextsOf(n - 1)
       IN  shorter \cup {t \o seg : t \in shorter, seg \in Segments}
Documents == TextsOf(MaxSegs)

\* "CURP: GOHM450315MGTRNR08 NSS: 12345678901"
ScenarioA == SegCURP \o SegNSS

(***************************************************************************)
(* State.  One detector (and the processor that owns it) handles one       *)
(* document: detect_phi, generate_report, sanitize_text, _log_phi_handling,*)
(* detect_phi on the sanitized text, restore_phi.  done holds the          *)
(* operations that have run; a result variable is meaningful once its      *)
(* operation is in done.                                                   *)
(***************************************************************************)
VARIABLES
  text,            \* the document
  done,            \* operations completed on it
  matches,         \* detect_phi(text)
  report,          \* generate_report(matches)
  sanitized,       \* sanitize_text(text)[0]
  phi_map,         \* sanitize_text(text)[1], items in insertion order
  rematches,       \* detect_phi(sanitized)
  restored,        \* restore_phi(sanitized, phi_map)
  audit_log,       \* SpanishMedicalPHIDetector.audit_log
  logged,          \* history: the arguments of each _log_detection call
  clock,           \* datetime.now()
  proc_audit_log,  \* MedicalDocumentProcessor.audit_log
  audit_file,      \* the lines of audit_log.jsonl
  all_matches,     \* the candidates handed to the overlap resolver
  filtered_matches,\* what the resolver made of them, sorted by start
  stages,          \* history: the stages the calls ran through, in order
  sent,            \* history: the texts given to the translation service
  translated_sanitized, \* the translated parts joined
  translated_final,\* restore_phi(translated_sanitized, phi_map)
  chunk_outcomes,  \* history: how the turn of each chunk ended
  env,             \* the faults the environment holds ready
  raised,          \* the call whose exception reached the caller, or "none"
  callers,         \* the callers that share one detector and processor
  adapter,         \* the fields of the translation adapter
  last_call        \* the last translate call of the adapter and its result

vars == <<text, done, matches, report, sanitized, phi_map, rematches, restored,
          audit_log, logged, clock, proc_audit_log, audit_file,
          all_matches, filtered_matches, stages, sent, translated_sanitized,
          translated_final, chunk_outcomes, env, raised, callers, adapter,
          last_call>>

\* what a call leaves alone when it neither translates nor fails
translation == <<sent, translated_sanitized, translated_final, chunk_outcomes>>
adapters == <<adapter, last_call>>

Users == {"unknown", "elena"}

\* no matcher fails and every write of the audit file succeeds
NoFault == [rule |-> 0, io |-> <<>>, attempts |-> 0]

\* no translation adapter is constructed and none is called
NoAdapter == [kind |-> "none"]
NoCall == [n |-> 0]

\* the state after SpanishMedicalPHIDetector() and
\* MedicalDocumentProcessor(), before a document is handled
Fresh ==
  /\ done = {}
  /\ matches = <<>>
  /\ report = [empty |-> TRUE]
  /\ sanitized = <<>>
  /\ phi_map = <<>>
  /\ rematches = <<>>
  /\ restored = <<>>
  /\ audit_log = <<>>
  /\ logged = <<>>
  /\ clock = 0
  /\ proc_audit_log = <<>>
  /\ audit_file = <<>>
  /\ all_matches = <<>>
  /\ filtered_matches = <<>>
  /\ stages = <<>>
  /\ sent = <<>>
  /\ translated_sanitized = <<>>
  /\ translated_final = <<>>
  /\ chunk_outcomes = <<>>
  /\ raised = "none"
  /\ callers = <<>>
  /\ adapter = NoAdapter
  /\ last_call = NoCall

Init ==
  /\ text \in Documents
  /\ env = NoFault
  /\ Fresh

\* the log rewritten with the new record alone
LogDetectionOverwrite(txt, ms) ==
  /\ audit_log' = <<DetectionLogEntry(txt, ms, clock)>>
  /\ logged' = Append(logged, [text |-> txt, matches |-> ms])
  /\ clock' = clock + 1
\* self._log_detection(text, filtered_matches), the last step of detect_phi
LogDetection(txt, ms) ==
  /\ audit_log' = Append(audit_log, DetectionLogEntry(txt, ms, clock))
  /\ logged' = Append(logged, [text |-> txt, matches |-> ms])
  /\ clock' = clock + 1

\* the stages one call of detect_phi runs through: the loop over
\* priority_patterns, then _filter_overlaps on the complete list
DetectStages == <<"match", "resolve">>
\* sanitize_text: detect_phi first, then the substitution loop
SanitizeStages == DetectStages \o <<"sanitize">>

\* detect_phi(txt) where no matcher fails: the locals all_matches and
\* filtered_matches, the record logged
DetectRun(txt) ==
  \E am \in {AllMatches(txt, 1)} :
    \E ms \in {Resolved(am)} :
      /\ all_matches' = am
      /\ filtered_matches' = ms
      /\ LogDetection(txt, ms)

\* detect_phi left by the exception of pattern.finditer: nothing is caught
\* in detect_phi, sanitize_text or their callers
DetectRaises(call) ==
  /\ raised' = call
  /\ UNCHANGED <<done, matches, sanitized, phi_map, rematches, audit_log, logged,
                 clock, all_matches, filtered_matches, stages>>

\* matches = detector.detect_phi(text)
DetectPhiCall ==
  /\ raised = "none"
  /\ done = {}
  /\ IF env.rule # 0
     THEN DetectRaises("detect_phi")
     ELSE /\ DetectRun(text)
          /\ matches' = filtered_matches'
          /\ done' = done \cup {"detect"}
          /\ stages' = stages \o DetectStages
          /\ UNCHANGED <<sanitized, phi_map, rematches, raised>>
  /\ UNCHANGED <<text, report, restored, proc_audit_log, audit_file,
                 translation, env, callers,
                 adapters>>

\* detector.generate_report(matches)
GenerateReportCall ==
  /\ raised = "none"
  /\ "detect" \in done
  /\ done \cap {"report", "sanitize"} = {}
  /\ report' = GenerateReport(matches)
  /\ done' = done \cup {"report"}
  /\ UNCHANGED <<text, matches, sanitized, phi_map, rematches, restored,
                 audit_log, logged, clock, proc_audit_log, audit_file,
                 all_matches, filtered_matches, stages, translation, env,
                 raised, callers,
                 adapters>>

\* sanitized, phi_map = detector.sanitize_text(text); sanitize_text calls
\* detect_phi itself
SanitizeTextCall ==
  /\ raised = "none"
  /\ "sanitize" \notin done
  /\ IF env.rule # 0
     THEN DetectRaises("sanitize_text")
     ELSE /\ DetectRun(text)
          /\ \E r \in {Sanitize(text, filtered_matches')} :
               /\ sanitized' = r.sanitized
               /\ phi_map' = r.phi_map
          /\ done' = done \cup {"sanitize"}
          /\ stages' = stages \o SanitizeStages
          /\ UNCHANGED <<matches, rematches, raised>>
  /\ UNCHANGED <<text, report, restored, proc_audit_log, audit_file,
                 translation, env, callers,
                 adapters>>

\* with open(audit_file, 'w') as f: the file holds the new record alone
FileWriteTruncating(file, log_entry) == <<log_entry>>
\* with open(audit_file, 'a') as f: f.write(json.dumps(log_entry) + '\n')
FileAppend(file, log_entry) == Append(file, log_entry)

\* self._log_phi_handling(text, phi_matches, 'translation') of
\* translate_with_phi_protection, after detect_phi and sanitize_text: the
\* record goes to self.audit_log, then the file is opened and written once;
\* an OSError of that attempt leaves the call
LogPhiHandlingCall ==
  /\ raised = "none"
  /\ {"detect", "sanitize"} \subseteq done
  /\ done \cap {"handling", "redetect", "restore"} = {}
  /\ \E user \in Users :
       \E log_entry \in {HandlingLogEntry(text, matches, "translation", clock, user)} :
         /\ proc_audit_log' = Append(proc_audit_log, log_entry)
         /\ IF env.io # <<>> /\ Head(env.io) = "error"
            THEN /\ raised' = "_log_phi_handling"
                 /\ env' = [env EXCEPT !.io = Tail(@), !.attempts = @ + 1]
                 /\ UNCHANGED <<audit_file, done>>
            ELSE /\ audit_file' = FileAppend(audit_file, log_entry)
                 /\ env' = [env EXCEPT !.io = IF @ = <<>> THEN @ ELSE Tail(@),
                                       !.attempts = @ + 1]
                 /\ done' = done \cup {"handling"}
                 /\ UNCHANGED raised
  /\ clock' = clock + 1
  /\ UNCHANGED <<text, matches, report, sanitized, phi_map, rematches, restored,
                 audit_log, logged, all_matches, filtered_matches, stages,
                 translation, callers,
                 adapters>>

\* sanitized, phi_map = detector.sanitize_text(text) and then
\* remaining_phi = detector.detect_phi(sanitized), as test_phi_detection_only
\* does
RedetectCall ==
  /\ raised = "none"
  /\ done = {"sanitize"}
  /\ IF env.rule # 0
     THEN DetectRaises("detect_phi")
     ELSE /\ DetectRun(sanitized)
          /\ rematches' = filtered_matches'
          /\ done' = done \cup {"redetect"}
          /\ stages' = stages \o DetectStages
          /\ UNCHANGED <<matches, sanitized, phi_map, raised>>
  /\ UNCHANGED <<text, report, restored, proc_audit_log, audit_file,
                 translation, env, callers,
                 adapters>>

\* restored = detector.restore_phi(sanitized, phi_map)
RestorePhiCall ==
  /\ raised = "none"
  /\ "sanitize" \in done
  /\ done \cap {"restore", "translate"} = {}
  /\ restored' = RestorePhi(sanitized, phi_map)
  /\ done' = done \cup {"restore"}
  /\ stages' = Append(stages, "restore")
  /\ UNCHANGED <<text, matches, report, sanitized, phi_map, rematches,
                 audit_log, logged, clock, proc_audit_log, audit_file,
                 all_matches, filtered_matches, translation, env, raised,
                 callers,
                 adapters>>

(***************************************************************************)
(* The translation of translate_with_phi_protection: the sanitized text in *)
(* chunks of chunk_size lines, each chunk that is not blank sent to the    *)
(* chat completion service inside the fixed prompt.  The service is        *)
(* outside the program: it answers with a translation of the chunk that    *)
(* keeps the placeholders, or the call raises and the chunk is kept.       *)
(***************************************************************************)
ChunkSize == 20

\* str.split('\n')
RECURSIVE SplitLines(_)
SplitLines(s) ==
  LET nl == {i \in 1..Len(s) : s[i] = "\n"}
  IN  IF nl = {} THEN <<s>>
      ELSE <<SubSeq(s, 1, SetMin(nl) - 1)>>
             \o SplitLines(SubSeq(s, SetMin(nl) + 1, Len(s)))

\* '\n'.join(parts)
RECURSIVE JoinLines(_)
JoinLines(parts) ==
  IF parts = <<>> THEN <<>>
  ELSE IF Len(parts) = 1 THEN parts[1]
  ELSE parts[1] \o <<"\n">> \o JoinLines(Tail(parts))

\* chunk_text of every turn of for i in range(0, len(lines), chunk_size)
ChunkTexts(lines) ==
  [c \in 1..((Len(lines) + ChunkSize - 1) \div ChunkSize) |->
     JoinLines(SubSeq(lines, (c - 1) * ChunkSize + 1, Min(c * ChunkSize, Len(lines))))]

\* not chunk_text.strip()
IsBlank(s) == \A i \in 1..Len(s) : s[i] \in Space

\* what the service answers: the chunk in English, placeholders kept
ServiceReply(chunk_text) ==
  Replace(chunk_text, <<"C","a","l","l","e">>, <<"S","t","r","e","e","t">>)

Outcomes == {"translated", "error"}

\* how the turns of the loop ended: a blank chunk is skipped, another one is
\* translated or its request raises
ChunkOutcomes(chunks, outcome) ==
  [c \in 1..Len(chunks) |-> IF IsBlank(chunks[c]) THEN "skipped" ELSE outcome[c]]

\* translated_parts after the loop, the service answering chunk c with
\* outcome[c]
TranslatedParts(chunks, outcome) ==
  [c \in 1..Len(chunks) |->
     IF IsBlank(chunks[c]) \/ outcome[c] = "error" THEN chunks[c]
     ELSE ServiceReply(chunks[c])]

\* the loop over the chunks handed the text detect_phi was given
TranslateRaw(raw, sanitized_text) == ChunkTexts(SplitLines(raw))
\* lines = sanitized_text.split('\n') and the chunks of the loop
TranslateChunks(raw, sanitized_text) == ChunkTexts(SplitLines(sanitized_text))

\* the loop of translate_with_phi_protection and the join of its parts
TranslateCall ==
  /\ raised = "none"
  /\ "handling" \in done
  /\ done \cap {"translate", "restore"} = {}
  /\ \E chunks \in {TranslateChunks(text, sanitized)} :
       \E outcome \in [1..Len(chunks) -> Outcomes] :
         /\ sent' = sent \o SelectSeq(chunks, LAMBDA c : ~IsBlank(c))
         /\ translated_sanitized' = JoinLines(TranslatedParts(chunks, outcome))
         /\ chunk_outcomes' = ChunkOutcomes(chunks, outcome)
  /\ done' = done \cup {"translate"}
  /\ stages' = Append(stages, "translate")
  /\ UNCHANGED <<text, matches, report, sanitized, phi_map, rematches, restored,
                 audit_log, logged, clock, proc_audit_log, audit_file,
                 all_matches, filtered_matches, translated_final, env, raised,
                 callers,
                 adapters>>

\* translated_final = self.phi_detector.restore_phi(translated_sanitized,
\* phi_map)
RestoreTranslatedCall ==
  /\ raised = "none"
  /\ "translate" \in done
  /\ "restore_translated" \notin done
  /\ translated_final' = RestorePhi(translated_sanitized, phi_map)
  /\ done' = done \cup {"restore_translated"}
  /\ stages' = Append(stages, "restore")
  /\ UNCHANGED <<text, matches, report, sanitized, phi_map, rematches, restored,
                 audit_log, logged, clock, proc_audit_log, audit_file,
                 all_matches, filtered_matches, sent, translated_sanitized,
                 chunk_outcomes, env, raised, callers,
                 adapters>>

Next ==
  \/ DetectPhiCall
  \/ GenerateReportCall
  \/ SanitizeTextCall
  \/ LogPhiHandlingCall
  \/ RedetectCall
  \/ RestorePhiCall
  \/ TranslateCall
  \/ RestoreTranslatedCall

Spec == Init /\ [][Next]_vars

(***************************************************************************)
(* The overlap resolver on its own.  detect_phi hands _filter_overlaps the *)
(* candidates rule after rule in registration order, the candidates of one *)
(* rule left to right and disjoint (re.finditer); every span is a regex    *)
(* match of a pattern that cannot match the empty string.  The candidates  *)
(* here are such lists over the positions 0..MaxPos of a text, of the      *)
(* rules ResolverRules with their registered types and confidences.        *)
(***************************************************************************)
MaxPos   == 4
MaxCands == 3
\* NSS 0.95, HEALTH_PLAN 0.85, PHONE 0.95, address 0.7
ResolverRules == {3, 5, 8, 12}
RuleOf(m) == CHOOSE r \in ResolverRules : Patterns[r].phi_type = m.phi_type

Candidate(p, start, end) ==
  [phi_type |-> p.phi_type, value |-> <<>>, start |-> start, end |-> end,
   confidence |-> p.confidence, context |-> <<>>]

\* all_matches.append(PHIMatch(...)) in the loops of detect_phi
AppendCandidate ==
  /\ done = {}
  /\ Len(all_matches) < MaxCands
  /\ \E r \in ResolverRules, start \in 0..(MaxPos - 1) :
       \E end \in (start + 1)..MaxPos :
         /\ all_matches # <<>> =>
              LET last == all_matches[Len(all_matches)]
              IN  \/ RuleOf(last) < r
                  \/ RuleOf(last) = r /\ last.end <= start
         /\ all_matches' = Append(all_matches, Candidate(Patterns[r], start, end))
  /\ UNCHANGED <<text, done, matches, report, sanitized, phi_map, rematches,
                 restored, audit_log, logged, clock, proc_audit_log, audit_file,
                 filtered_matches, stages, translation, env, raised, callers,
                 adapters>>

\* filtered_matches = self._filter_overlaps(all_matches) and the sort by start
FilterOverlapsCall ==
  /\ done = {}
  /\ filtered_matches' = Resolved(all_matches)
  /\ done' = {"resolve"}
  /\ UNCHANGED <<text, matches, report, sanitized, phi_map, rematches,
                 restored, audit_log, logged, clock, proc_audit_log, audit_file,
                 all_matches, stages, translation, env, raised, callers,
                 adapters>>

InitResolver ==
  /\ text = <<>>
  /\ env = NoFault
  /\ Fresh

NextResolver ==
  \/ AppendCandidate
  \/ FilterOverlapsCall

SpecResolver == InitResolver /\ [][NextResolver]_vars

(***************************************************************************)
(* _filter_overlaps called with any list of PHIMatch: besides the spans a  *)
(* regex match gives, spans with start >= end (empty or reversed), which   *)
(* no pattern of the registry produces; they stand among the candidates of *)
(* the first rule.                                                         *)
(***************************************************************************)
\* matches.append(PHIMatch(..., start, end, ...)) with start >= end
AppendEmptySpan ==
  /\ done = {}
  /\ Len(all_matches) < MaxCands
  /\ all_matches # <<>> => RuleOf(all_matches[Len(all_matches)]) = 3
  /\ \E start \in 0..MaxPos :
       \E end \in {start, start - 1} \cap Nat :
         all_matches' = Append(all_matches, Candidate(PatNSS, start, end))
  /\ UNCHANGED <<text, done, matches, report, sanitized, phi_map, rematches,
                 restored, audit_log, logged, clock, proc_audit_log, audit_file,
                 filtered_matches, stages, translation, env, raised, callers,
                 adapters>>

NextFilter ==
  \/ AppendCandidate
  \/ AppendEmptySpan
  \/ FilterOverlapsCall

SpecFilter == InitResolver /\ [][NextFilter]_vars

(***************************************************************************)
(* Documents that already hold text of the placeholder syntax, as a        *)
(* document does that was sanitized before: the written date of the other  *)
(* documents and a street line naming "[DATE_1]".                          *)
(***************************************************************************)
SegPlaceholder == <<" ","C","a","l","l","e"," ","[","D","A","T","E","_","1","]">>
RestoreSegments == {SegDate, SegPlaceholder}
MaxRestoreSegs == 3

RECURSIVE TextsOver(_, _)
TextsOver(segs, n) ==
  IF n = 0 THEN {<<>>}
  ELSE LET shorter == TextsOver(segs, n - 1)
       IN  shorter \cup {t \o seg : t \in shorter, seg \in segs}

InitRestore ==
  /\ text \in TextsOver(RestoreSegments, MaxRestoreSegs)
  /\ env = NoFault
  /\ Fresh

SpecRestore == InitRestore /\ [][Next]_vars

(***************************************************************************)
(* The calls under faults of the environment: the matcher of one rule      *)
(* raising while it scans (rule: its place in priority_patterns, 0 for     *)
(* none), and the attempts to write the audit file failing with an OSError *)
(* (io: the outcome of the attempts to come, none left meaning success).   *)
(* One fault at a time.                                                    *)
(***************************************************************************)
MaxFaultSegs == 2
\* the NSS rule, the address rule
FailingRules == {3, 12}
FaultEnvironments ==
  {[NoFault EXCEPT !.rule = r] : r \in FailingRules}
    \cup {[NoFault EXCEPT !.io = io] : io \in {<<>>, <<"error">>, <<"error", "error">>}}

InitFaults ==
  /\ text \in TextsOf(MaxFaultSegs)
  /\ env \in FaultEnvironments
  /\ Fresh

SpecFaults == InitFaults /\ [][Next]_vars

(***************************************************************************)
(* Several callers inside translate_with_phi_protection at once, on one    *)
(* processor and its detector.  The code takes no lock.  What the callers  *)
(* share is detector.audit_log, processor.audit_log and the audit file;    *)
(* everything else is local to the call.  A step is a run of local work    *)
(* ending in one access to what is shared: list.append, one call of the    *)
(* interpreter, and the flush of the file object at the end of the with    *)
(* block, one write of the buffered line to a file opened in append mode.  *)
(***************************************************************************)
Callers == {1, 2}
ConcurrentDocuments == {ScenarioA, SegNSS, SegHidalgo}
PcOrder == <<"start", "detected", "sanitized", "appended", "written",
             "logged", "returned">>
PcRank(pc) == CHOOSE k \in 1..Len(PcOrder) : PcOrder[k] = pc
\* caller c has gone through the step that leaves it at pc, or further
Past(c, pc) == PcRank(callers[c].pc) >= PcRank(pc)

\* what the call returns on a processor no other caller uses
Alone(txt) ==
  LET ms == DetectPhi(txt)
      r  == Sanitize(txt, ms)
  IN  [phi_matches |-> ms, sanitized_text |-> r.sanitized, phi_map |-> r.phi_map]

NewCaller(txt) ==
  [pc |-> "start", text |-> txt, phi_matches |-> <<>>, sanitized_text |-> <<>>,
   phi_map |-> <<>>, log_entry |-> <<>>, buffer |-> <<>>,
   translated_final |-> <<>>, alone |-> Alone(txt)]

InitConcurrent ==
  /\ text = <<>>
  /\ env = NoFault
  /\ done = {}
  /\ matches = <<>>
  /\ report = [empty |-> TRUE]
  /\ sanitized = <<>>
  /\ phi_map = <<>>
  /\ rematches = <<>>
  /\ restored = <<>>
  /\ audit_log = <<>>
  /\ logged = <<>>
  /\ clock = 0
  /\ proc_audit_log = <<>>
  /\ audit_file = <<>>
  /\ all_matches = <<>>
  /\ filtered_matches = <<>>
  /\ stages = <<>>
  /\ sent = <<>>
  /\ translated_sanitized = <<>>
  /\ translated_final = <<>>
  /\ chunk_outcomes = <<>>
  /\ raised = "none"
  /\ callers \in {[c \in Callers |-> NewCaller(txts[c])] :
                    txts \in [Callers -> ConcurrentDocuments]}
  /\ adapter = NoAdapter
  /\ last_call = NoCall

\* what no caller step touches: the variables of the single document
single == <<text, done, matches, report, sanitized, phi_map, rematches,
            restored, all_matches, filtered_matches, stages, translation, env,
            raised, adapters>>

\* a map kept on the detector: the entries of every call so far
MapOfDetector(cs) == cs[1].phi_map \o cs[2].phi_map
\* phi_map = {} of sanitize_text: a local of the call, empty whatever the
\* other calls hold
NewMap(cs) == <<>>

\* phi_matches = self.phi_detector.detect_phi(text)
CallerDetect(c) ==
  /\ callers[c].pc = "start"
  /\ \E ms \in {DetectPhi(callers[c].text)} :
       /\ LogDetection(callers[c].text, ms)
       /\ callers' = [callers EXCEPT ![c].phi_matches = ms, ![c].pc = "detected"]
  /\ UNCHANGED <<single, proc_audit_log, audit_file>>

\* sanitized_text, phi_map = self.phi_detector.sanitize_text(text)
CallerSanitize(c) ==
  /\ callers[c].pc = "detected"
  /\ \E ms \in {DetectPhi(callers[c].text)} :
       \E r \in {SanitizeLoop(ms, Len(ms), [sanitized |-> callers[c].text,
                                           phi_map |-> NewMap(callers)])} :
         /\ LogDetection(callers[c].text, ms)
         /\ callers' = [callers EXCEPT ![c].sanitized_text = r.sanitized,
                                       ![c].phi_map = r.phi_map,
                                       ![c].pc = "sanitized"]
  /\ UNCHANGED <<single, proc_audit_log, audit_file>>

\* _log_phi_handling up to self.audit_log.append(log_entry)
CallerLogAppend(c) ==
  /\ callers[c].pc = "sanitized"
  /\ \E user \in {"unknown"} :
       \E log_entry \in {HandlingLogEntry(callers[c].text, callers[c].phi_matches,
                                          "translation", clock, user)} :
         /\ proc_audit_log' = Append(proc_audit_log, log_entry)
         /\ callers' = [callers EXCEPT ![c].log_entry = log_entry,
                                       ![c].pc = "appended"]
  /\ clock' = clock + 1
  /\ UNCHANGED <<single, audit_log, logged, audit_file>>

\* open(audit_file, 'a') and f.write(json.dumps(log_entry) + '\n'): the line
\* is in the buffer of the caller's own file object
CallerLogWrite(c) ==
  /\ callers[c].pc = "appended"
  /\ callers' = [callers EXCEPT ![c].buffer = callers[c].log_entry,
                                ![c].pc = "written"]
  /\ UNCHANGED <<single, audit_log, logged, clock, proc_audit_log, audit_file>>

\* the end of the with block: the buffer goes to the file in one write
CallerLogClose(c) ==
  /\ callers[c].pc = "written"
  /\ audit_file' = FileAppend(audit_file, callers[c].buffer)
  /\ callers' = [callers EXCEPT ![c].buffer = <<>>, ![c].pc = "logged"]
  /\ UNCHANGED <<single, audit_log, logged, clock, proc_audit_log>>

\* the translation loop and restore_phi(translated_sanitized, phi_map)
CallerTranslateRestore(c) ==
  /\ callers[c].pc = "logged"
  /\ \E chunks \in {TranslateChunks(callers[c].text, callers[c].sanitized_text)} :
       \E outcome \in [1..Len(chunks) -> Outcomes] :
         callers' = [callers EXCEPT
                       ![c].translated_final =
                          RestorePhi(JoinLines(TranslatedParts(chunks, outcome)),
                                     callers[c].phi_map),
                       ![c].pc = "returned"]
  /\ UNCHANGED <<single, audit_log, logged, clock, proc_audit_log, audit_file>>

NextConcurrent ==
  \/ \E c \in Callers : CallerDetect(c)
  \/ \E c \in Callers : CallerSanitize(c)
  \/ \E c \in Callers : CallerLogAppend(c)
  \/ \E c \in Callers : CallerLogWrite(c)
  \/ \E c \in Callers : CallerLogClose(c)
  \/ \E c \in Callers : CallerTranslateRestore(c)

SpecConcurrent == InitConcurrent /\ [][NextConcurrent]_vars

(***************************************************************************)
(* Documents of more lines than one chunk of the translation loop holds:   *)
(* a segment, chunk_size line ends, a segment, and so on.  One segment is  *)
(* a street whose name has the form of a placeholder, as in a document     *)
(* that was sanitized before.                                              *)
(***************************************************************************)
ChunkSegments == {SegNSS, SegDate, SegCalle, SegPlaceholder}
\* the line ends that fill a chunk
Gap == [k \in 1..ChunkSize |-> "\n"]
MaxChunks == 2
RECURSIVE ChunkDocuments(_)
ChunkDocuments(n) ==
  IF n = 1 THEN TextsOver(ChunkSegments, 1)
  ELSE {d \o Gap \o t : d \in ChunkDocuments(n - 1), t \in TextsOver(ChunkSegments, 1)}

InitChunks ==
  /\ text \in ChunkDocuments(MaxChunks)
  /\ env = NoFault
  /\ Fresh

SpecChunks == InitChunks /\ [][Next]_vars

(***************************************************************************)
(* The detector of phi_detector_spanish.py.  It has no overlap resolver:   *)
(* detect_phi returns the matches of every pattern, and sanitize_text      *)
(* replaces them all from the highest (start, end) down.  Of its patterns  *)
(* the model holds the five that match in the documents of the model       *)
(* (name_general, date_mexican, phone_general, nss_mexico, curp), in the   *)
(* order of the dict; a pattern with several groups is written with its    *)
(* first group only, the one the value is taken from.                      *)
(***************************************************************************)
\* name_general: \b([A-ZÁÉÍÓÚÑ][a-záéíóúñ]+)\s+([A-ZÁÉÍÓÚÑ][a-záéíóúñ]+)\s+([A-ZÁÉÍÓÚÑ][a-záéíóúñ]+)\b
BasicNameGeneral ==
  [phi_type |-> <<"n","a","m","e","_","g","e","n","e","r","a","l">>, ic |-> FALSE, ast |->
    Cat(<<WB, Grp(NameWord), Plus(Chr(Space)), NameWord, Plus(Chr(Space)),
          NameWord, WB>>)]
\* date_mexican: \b(\d{1,2})[/-](\d{1,2})[/-](\d{4}|\d{2})\b
BasicDateMexican ==
  [phi_type |-> <<"d","a","t","e","_","m","e","x","i","c","a","n">>, ic |-> FALSE, ast |->
    Cat(<<WB, Grp(Rep(Chr(Digit), 1, 2)), Chr({"/","-"}), Rep(Chr(Digit), 1, 2),
          Chr({"/","-"}), Alt(<<Rep(Chr(Digit), 4, 4), Rep(Chr(Digit), 2, 2)>>),
          WB>>)]
\* phone_general: \b(?:\+52\s*)?(?:\d{2,3}[-.\s]?)?\d{3,4}[-.\s]?\d{4}\b
BasicPhoneGeneral ==
  [phi_type |-> <<"p","h","o","n","e","_","g","e","n","e","r","a","l">>, ic |-> FALSE, ast |->
    Grp(Cat(<<WB, Opt(Cat(<<Lit(<<"+","5","2">>), Star(Chr(Space))>>)),
          Opt(Cat(<<Rep(Chr(Digit), 2, 3), Opt(Chr({"-","."} \cup Space))>>)),
          Rep(Chr(Digit), 3, 4), Opt(Chr({"-","."} \cup Space)),
          Rep(Chr(Digit), 4, 4), WB>>))]
\* nss_mexico: \b(?:NSS|IMSS|SEGURO\s+SOCIAL)[:\s#]*(\d{11})\b, IGNORECASE
BasicNssMexico ==
  [phi_type |-> <<"n","s","s","_","m","e","x","i","c","o">>, ic |-> TRUE, ast |->
    Cat(<<WB, Alt(<<Lit(<<"N","S","S">>), Lit(<<"I","M","S","S">>),
                    Cat(<<Lit(<<"S","E","G","U","R","O">>), Plus(Chr(Space)),
                          Lit(<<"S","O","C","I","A","L">>)>>)>>),
          Star(Chr({":","#"} \cup Space)), Grp(Rep(Chr(Digit), 11, 11)), WB>>)]
\* curp: \b(?:CURP)[:\s]*([A-Z]{4}\d{6}[HM][A-Z]{5}[A-Z0-9]\d)\b, IGNORECASE
BasicCurp ==
  [phi_type |-> <<"c","u","r","p">>, ic |-> TRUE, ast |->
    Cat(<<WB, Lit(<<"C","U","R","P">>), Star(Chr({":"} \cup Space)),
      Grp(Cat(<<Rep(Chr(AsciiUpper), 4, 4), Rep(Chr(Digit), 6, 6), Chr({"H","M"}),
                Rep(Chr(AsciiUpper), 5, 5), Chr(AsciiUpper \cup Digit), Chr(Digit)>>)),
      WB>>)]
BasicPatterns ==
  <<BasicNameGeneral, BasicDateMexican, BasicPhoneGeneral, BasicNssMexico, BasicCurp>>

\* the keys of the patterns as str orders them
BasicTypeOrder ==
  <<<<"c","u","r","p">>,
    <<"d","a","t","e","_","m","e","x","i","c","a","n">>,
    <<"n","a","m","e","_","g","e","n","e","r","a","l">>,
    <<"n","s","s","_","m","e","x","i","c","o">>,
    <<"p","h","o","n","e","_","g","e","n","e","r","a","l">>>>
BasicTypeRank(phi_type) ==
  CHOOSE k \in 1..Len(BasicTypeOrder) : BasicTypeOrder[k] = phi_type

\* matches.append((value, match.start(), match.end())) for the matches of
\* one pattern
BasicTuples(ms, txt) ==
  <<>> \o [k \in 1..Len(ms) |->
             [value |-> Slice(txt, ms[k].gs, ms[k].ge), start |-> ms[k].start,
              end |-> ms[k].end]]
BasicMatches(p, txt) == BasicTuples(FindIter(p, txt), txt)

\* if matches: phi_found[phi_type] = matches
BasicFound(phi_type, ms) ==
  IF ms = <<>> THEN <<>> ELSE <<[key |-> phi_type, value |-> ms]>>

\* phi_found: the patterns that matched, in the order of the dict, each
\* with its matches
RECURSIVE BasicDetectPhi(_, _)
BasicDetectPhi(txt, k) ==
  IF k > Len(BasicPatterns) THEN <<>>
  ELSE BasicFound(BasicPatterns[k].phi_type, BasicMatches(BasicPatterns[k], txt))
         \o BasicDetectPhi(txt, k + 1)

\* all_phi before the sort: (start, end, phi_type, value) of every match
RECURSIVE BasicAllOf(_, _)
BasicAllOf(phi_found, k) ==
  IF k > Len(phi_found) THEN <<>>
  ELSE [j \in 1..Len(phi_found[k].value) |->
          [start |-> phi_found[k].value[j].start, end |-> phi_found[k].value[j].end,
           phi_type |-> phi_found[k].key, value |-> phi_found[k].value[j].value]]
         \o BasicAllOf(phi_found, k + 1)

\* the entry of _log_detection
BasicLogEntry(txt, phi_found, now) ==
  [timestamp |-> now, text_hash |-> TextHash(txt),
   phi_types_found |-> [k \in 1..Len(phi_found) |-> phi_found[k].key],
   phi_count |-> IF phi_found = <<>> THEN 0
                 ELSE Len(BasicAllOf(phi_found, 1))]

\* the order of the tuples (start, end, phi_type, value)
BasicTupleLess(a, b) ==
  \/ a.start < b.start
  \/ a.start = b.start /\ a.end < b.end
  \/ a.start = b.start /\ a.end = b.end
       /\ BasicTypeRank(a.phi_type) < BasicTypeRank(b.phi_type)

\* all_phi.sort(reverse=True): no two tuples are equal
RECURSIVE BasicSortReverse(_)
BasicSortReverse(S) ==
  IF S = {} THEN <<>>
  ELSE LET top == CHOOSE x \in S : \A y \in S \ {x} : BasicTupleLess(y, x)
       IN  <<top>> \o BasicSortReverse(S \ {top})

\* all_phi as the loop of sanitize_text takes it
BasicSetOf(flat) == {flat[j] : j \in 1..Len(flat)}
BasicAllPhi(phi_found) == BasicSortReverse(BasicSetOf(BasicAllOf(phi_found, 1)))

\* s[a:b] of a str, the offsets cut at len(s)
PySlice(s, a, b) == SubSeq(s, Min(a, Len(s)) + 1, Min(b, Len(s)))

\* one turn of the replacement loop
BasicSanitizeStep(st, e) ==
  LET placeholder == <<"[">> \o UpperStr(e.phi_type) \o <<"_">>
                       \o IntToStr(Len(st.phi_map)) \o <<"]">>
  IN  [phi_map   |-> DictSet(st.phi_map, placeholder,
                             [type |-> e.phi_type, value |-> e.value,
                              start |-> e.start, end |-> e.end]),
       sanitized |-> PySlice(st.sanitized, 0, e.start) \o placeholder
                       \o PySlice(st.sanitized, e.end, Len(st.sanitized))]

\* for start, end, phi_type, value in all_phi: the turns from place k on
RECURSIVE BasicSanitizeLoop(_, _, _)
BasicSanitizeLoop(all_phi, k, st) ==
  IF k > Len(all_phi) THEN st
  ELSE BasicSanitizeLoop(all_phi, k + 1, BasicSanitizeStep(st, all_phi[k]))

\* sanitize_text, given all_phi
BasicSanitize(txt, all_phi) ==
  BasicSanitizeLoop(all_phi, 1, [sanitized |-> txt, phi_map |-> <<>>])

\* restore_phi of the same detector
RECURSIVE BasicRestoreLoop(_, _, _)
BasicRestoreLoop(restored_text, map, k) ==
  IF k > Len(map) THEN restored_text
  ELSE BasicRestoreLoop(Replace(restored_text, map[k].key, map[k].value.value),
                        map, k + 1)

MaxBasicSegs == 2

InitBasic ==
  /\ text \in TextsOf(MaxBasicSegs)
  /\ env = NoFault
  /\ Fresh

\* phi_found = detector.detect_phi(text)
BasicDetectPhiCall ==
  /\ done = {}
  /\ \E phi_found \in {BasicDetectPhi(text, 1)} :
       /\ matches' = phi_found
       /\ audit_log' = Append(audit_log, BasicLogEntry(text, phi_found, clock))
       /\ logged' = Append(logged, [text |-> text, matches |-> phi_found])
  /\ clock' = clock + 1
  /\ done' = {"detect"}
  /\ UNCHANGED <<text, report, sanitized, phi_map, rematches, restored,
                 proc_audit_log, audit_file, all_matches, filtered_matches,
                 stages, translation, env, raised, callers,
                 adapters>>

\* sanitized, phi_map = detector.sanitize_text(text); all_matches holds
\* all_phi after the sort
BasicSanitizeTextCall ==
  /\ "sanitize" \notin done
  /\ \E phi_found \in {BasicDetectPhi(text, 1)} :
       \E all_phi \in {BasicAllPhi(phi_found)} :
         \E r \in {BasicSanitize(text, all_phi)} :
           /\ all_matches' = all_phi
           /\ sanitized' = r.sanitized
           /\ phi_map' = r.phi_map
           /\ audit_log' = Append(audit_log, BasicLogEntry(text, phi_found, clock))
           /\ logged' = Append(logged, [text |-> text, matches |-> phi_found])
  /\ clock' = clock + 1
  /\ done' = done \cup {"sanitize"}
  /\ UNCHANGED <<text, matches, report, rematches, restored, proc_audit_log,
                 audit_file, filtered_matches, stages, translation, env, raised,
                 callers,
                 adapters>>

\* restored = detector.restore_phi(sanitized, phi_map)
BasicRestorePhiCall ==
  /\ "sanitize" \in done
  /\ "restore" \notin done
  /\ restored' = BasicRestoreLoop(sanitized, phi_map, 1)
  /\ done' = done \cup {"restore"}
  /\ UNCHANGED <<text, matches, report, sanitized, phi_map, rematches,
                 audit_log, logged, clock, proc_audit_log, audit_file,
                 all_matches, filtered_matches, stages, translation, env,
                 raised, callers,
                 adapters>>

NextBasic ==
  \/ BasicDetectPhiCall
  \/ BasicSanitizeTextCall
  \/ BasicRestorePhiCall

SpecBasic == InitBasic /\ [][NextBasic]_vars

(***************************************************************************)
(* The translation adapters of src/mt.  An adapter takes a de-identified   *)
(* text whose PHI stands as __PHI_<TYPE>_<n>__ tokens, asks a translation  *)
(* service outside the program and hands back the answer, or the text it   *)
(* was given when the answer cannot be used.  The service is the           *)
(* environment: it fails or answers as the call's script says.             *)
(***************************************************************************)
\* self.phi_pattern = re.compile(r'__PHI_[A-Z]+_\d+__')
PhiPattern ==
  [ic |-> FALSE, ast |->
    Cat(<<Lit(<<"_","_","P","H","I","_">>), Plus(Chr(AsciiUpper)), Lit(<<"_">>),
          Plus(Chr(Digit)), Lit(<<"_","_">>)>>)]

\* pattern.findall(text) of a pattern without groups
MatchedTexts(ms, txt) ==
  <<>> \o [k \in 1..Len(ms) |-> Slice(txt, ms[k].start, ms[k].end)]
FindAll(p, txt) == MatchedTexts(FindIter(p, txt), txt)

\* pattern.sub(repl, text): the text with every match replaced; i is a
\* Python offset
RECURSIVE SubFrom(_, _, _, _, _)
SubFrom(txt, ms, k, i, repl) ==
  IF k > Len(ms) THEN Slice(txt, i, Len(txt))
  ELSE Slice(txt, i, ms[k].start) \o repl \o SubFrom(txt, ms, k + 1, ms[k].end, repl)
RegexSub(p, repl, txt) == SubFrom(txt, FindIter(p, txt), 1, 0, repl)

RECURSIVE LowerStr(_)
LowerStr(s) == IF s = <<>> THEN <<>> ELSE <<ToLower(Head(s))>> \o LowerStr(Tail(s))
\* v in s
IsIn(v, s) == \E i \in 1..(Len(s) - Len(v) + 1) : SubSeq(s, i, i + Len(v) - 1) = v

\* str.strip()
RECURSIVE StripLeft(_)
StripLeft(s) ==
  IF s # <<>> /\ Head(s) \in Space THEN StripLeft(Tail(s)) ELSE s
RECURSIVE StripRight(_)
StripRight(s) ==
  IF s # <<>> /\ s[Len(s)] \in Space THEN StripRight(SubSeq(s, 1, Len(s) - 1)) ELSE s
Strip(s) == StripRight(StripLeft(s))

\* sorted(list of str).  The order of the characters is that of CodeSeq;
\* two sorted lists are equal under one total order exactly when they are
\* under another.
RECURSIVE StrLess(_, _)
StrLess(a, b) ==
  IF b = <<>> THEN FALSE
  ELSE IF a = <<>> THEN TRUE
  ELSE IF Head(a) # Head(b) THEN CodeOf[Head(a)] < CodeOf[Head(b)]
  ELSE StrLess(Tail(a), Tail(b))
RECURSIVE InsertStr(_, _)
InsertStr(sorted, s) ==
  IF sorted = <<>> THEN <<s>>
  ELSE IF StrLess(s, Head(sorted)) THEN <<s>> \o sorted
  ELSE <<Head(sorted)>> \o InsertStr(Tail(sorted), s)
RECURSIVE SortedStrs(_)
SortedStrs(list) ==
  IF list = <<>> THEN <<>>
  ELSE InsertStr(SortedStrs(SubSeq(list, 1, Len(list) - 1)), list[Len(list)])

\* d[key] of a dict that holds key
DictGet(d, key) == d[CHOOSE k \in 1..Len(d) : d[k].key = key].value

\* hashlib.md5(...).hexdigest() of the call's text (and, for ALIA, mode and
\* temperature): a digest, equal for equal arguments and different for the
\* different arguments of the model
CacheKey(arguments) == [md5 |-> arguments]

\* PHIValidator: of its patterns the model holds those that match a run of
\* digits, the only ones that match in the texts of the model.
\* 'NSS': \b\d{11}\b
ValidatorNSS ==
  [ic |-> FALSE, ast |-> Cat(<<WB, Rep(Chr(Digit), 11, 11), WB>>)]
\* 'SSN': \b\d{3}-\d{2}-\d{4}\b|\b\d{9}\b
ValidatorSSN ==
  [ic |-> FALSE, ast |->
    Alt(<<Cat(<<WB, Rep(Chr(Digit), 3, 3), Lit(<<"-">>), Rep(Chr(Digit), 2, 2),
                Lit(<<"-">>), Rep(Chr(Digit), 4, 4), WB>>),
          Cat(<<WB, Rep(Chr(Digit), 9, 9), WB>>)>>)]
\* 'phone_us': \b\d{3}[-.]?\d{3}[-.]?\d{4}\b
ValidatorPhoneUS ==
  [ic |-> FALSE, ast |->
    Cat(<<WB, Rep(Chr(Digit), 3, 3), Opt(Chr({"-","."})), Rep(Chr(Digit), 3, 3),
          Opt(Chr({"-","."})), Rep(Chr(Digit), 4, 4), WB>>)]
ValidatorPatterns == <<ValidatorNSS, ValidatorSSN, ValidatorPhoneUS>>

\* len(self.detect_phi(text)) > 0
ValidatorDetects(txt) ==
  \E k \in 1..Len(ValidatorPatterns) : FindIter(ValidatorPatterns[k], txt) # <<>>
\* is_safe of validate_deidentified: nothing is detected once the
\* placeholders are taken out
IsSafe(txt) == ~ValidatorDetects(RegexSub(PhiPattern, <<>>, txt))

\* verify_placeholder_integrity(original, translated)
VerifyPlaceholderIntegrity(original, translated) ==
  SortedStrs(FindAll(PhiPattern, original)) = SortedStrs(FindAll(PhiPattern, translated))

\* one glossary term of apply_glossary_corrections
GlossaryCorrection(corrected, term) ==
  IF IsIn(term.key, LowerStr(corrected))
    THEN RegexSub([ic |-> TRUE, ast |-> Lit(term.key)], term.value, corrected)
    ELSE corrected
\* apply_glossary_corrections(text): for es_term, en_term in
\* self.glossary.items()
RECURSIVE ApplyGlossaryCorrections(_, _, _)
ApplyGlossaryCorrections(glossary, k, corrected) ==
  IF k > Len(glossary) THEN corrected
  ELSE ApplyGlossaryCorrections(glossary, k + 1, GlossaryCorrection(corrected, glossary[k]))

\* the texts handed to an adapter and the answers of the service: a
\* placeholder, a word, a number of eleven digits
SegAge    == <<"_","_","P","H","I","_","A","G","E","_","1","_","_">>
SegEl     == <<"e","l"," ">>
SegThe    == <<"t","h","e"," ">>
SegDigits == <<"1","2","3","4","5","6","7","8","9","0","1">>
AdapterTexts ==
  {<<>>, <<" ">>, SegEl, SegAge, SegEl \o SegAge, SegAge \o SegAge,
   SegDigits, SegAge \o SegDigits}
SegTempra == <<"T","e","m","p","r","a">>
Replies ==
  {SegThe, SegAge, SegThe \o SegAge, SegAge \o SegAge, SegThe \o SegAge \o <<" ">>,
   SegTempra}

\* a glossary as load_glossary leaves it: none, or the entry 'g' -> 'grams'
\* of scripts/generate_seed_glossary.py
Glossaries == {<<>>, <<[key |-> <<"g">>, value |-> <<"g","r","a","m","s">>]>>}

MaxRetries == 1

\* what the service does to the attempts of one call: it fails as fails
\* says, one entry an attempt, and answers the attempt after them with reply
FailureKinds == {"rate_limit", "api_error"}
RECURSIVE SeqsUpTo(_, _)
SeqsUpTo(S, n) ==
  IF n = 0 THEN {<<>>}
  ELSE LET shorter == SeqsUpTo(S, n - 1)
       IN  shorter \cup {Append(f, x) : f \in shorter, x \in S}

\* OpenAISecureAdapter(...) after __init__
OpenAIAdapters ==
  {[kind |-> "openai", validate_phi |-> v, require_baa |-> b, glossary |-> g,
    cache |-> <<>>, cache_hits |-> 0, api_calls |-> 0, audit_log |-> <<>>] :
     v \in BOOLEAN, b \in BOOLEAN, g \in Glossaries}

\* translate up to the request: the early return of a blank text, the cache
\* and validate_and_clean.  finished says that the call has returned.
OpenAIBeforeRequest(a, txt, use_cache) ==
  IF txt = <<>> \/ IsBlank(txt)
    THEN [finished |-> TRUE, adapter |-> a, returned |-> txt, hit |-> FALSE]
  ELSE IF use_cache /\ HasKey(a.cache, CacheKey(txt))
    THEN [finished |-> TRUE, adapter |-> [a EXCEPT !.cache_hits = @ + 1],
          returned |-> DictGet(a.cache, CacheKey(txt)), hit |-> TRUE]
  ELSE [finished |-> FALSE, adapter |-> a, returned |-> txt, hit |-> FALSE]

\* metadata of validate_and_clean
Metadata(a, txt) ==
  [has_phi_placeholders |-> FindAll(PhiPattern, txt) # <<>>,
   is_safe |-> IF a.validate_phi THEN IsSafe(txt) ELSE TRUE]
\* a ValueError on a flagged text with no BAA in place: nothing but a
\* warning
ValidateWarnsOnly(a, metadata) == FALSE
\* raise ValueError(f"PHI detected without BAA: {detected_phi}")
ValidateRaises(a, metadata) == ~metadata.is_safe /\ a.require_baa

\* a loop that counts the API errors only
RECURSIVE RetryLoopErrorsCounted(_, _, _, _, _)
RetryLoopErrorsCounted(fails, retries, attempts, max_retries, retry_on_error) ==
  IF retries > max_retries THEN [attempts |-> attempts, outcome |-> "unbound"]
  ELSE IF attempts + 1 > Len(fails)
    THEN [attempts |-> attempts + 1, outcome |-> "response"]
  ELSE IF fails[attempts + 1] = "rate_limit"
    THEN RetryLoopErrorsCounted(fails, retries, attempts + 1, max_retries,
                                retry_on_error)
  ELSE IF ~retry_on_error \/ retries >= max_retries
    THEN [attempts |-> attempts + 1, outcome |-> "raised"]
  ELSE RetryLoopErrorsCounted(fails, retries + 1, attempts + 1, max_retries,
                              retry_on_error)
\* while retries <= max_retries: the attempts made and how the loop ended,
\* with a response, with an exception raised, or with no turn made and
\* response unbound
RECURSIVE RetryLoop(_, _, _, _, _)
RetryLoop(fails, retries, attempts, max_retries, retry_on_error) ==
  IF retries > max_retries THEN [attempts |-> attempts, outcome |-> "unbound"]
  ELSE IF attempts + 1 > Len(fails)
    THEN [attempts |-> attempts + 1, outcome |-> "response"]
  ELSE IF fails[attempts + 1] = "rate_limit"
    THEN IF retries + 1 > max_retries
           THEN [attempts |-> attempts + 1, outcome |-> "raised"]
           ELSE RetryLoop(fails, retries + 1, attempts + 1, max_retries, retry_on_error)
  ELSE IF ~retry_on_error \/ retries >= max_retries
    THEN [attempts |-> attempts + 1, outcome |-> "raised"]
  ELSE RetryLoop(fails, retries + 1, attempts + 1, max_retries, retry_on_error)

\* the entry of self.audit_log.append; its timestamp and the token count of
\* the service are left out
AdapterAuditEntry(metadata) ==
  [model |-> "gpt-4", cached |-> FALSE, safe |-> metadata.is_safe]

\* translate from the response on: strip, the integrity check, the
\* glossary, the cache, the audit log
AfterResponse(a, txt, use_cache, metadata, content) ==
  IF metadata.has_phi_placeholders /\ ~VerifyPlaceholderIntegrity(txt, Strip(content))
    THEN [adapter |-> [a EXCEPT !.api_calls = @ + 1], returned |-> txt]
    ELSE [adapter  |-> [a EXCEPT !.api_calls = @ + 1,
                                 !.cache = IF use_cache
                                             THEN DictSet(@, CacheKey(txt),
                                                    ApplyGlossaryCorrections(a.glossary, 1, Strip(content)))
                                             ELSE @,
                                 !.audit_log = Append(@, AdapterAuditEntry(metadata))],
          returned |-> ApplyGlossaryCorrections(a.glossary, 1, Strip(content))]

\* what translate leaves when the loop has ended: except Exception returns
\* the text
AfterLoop(a, txt, loop, answered) ==
  IF loop.outcome = "response" THEN answered
  ELSE [adapter |-> a, returned |-> txt]

\* the record of a call
CallRecord(n, a, txt, max_retries, hit, attempts, succeeded, returned) ==
  [n |-> n, before |-> a, text |-> txt, max_retries |-> max_retries, hit |-> hit,
   attempts |-> attempts, succeeded |-> succeeded, returned |-> returned]

\* what every call of an adapter leaves alone
pipeline == <<text, done, matches, report, sanitized, phi_map, rematches, restored,
              audit_log, logged, clock, proc_audit_log, audit_file, all_matches,
              filtered_matches, stages, translation, env, raised, callers>>

\* the call has returned r.returned and left the adapter as r.adapter
Returns(n, txt, max_retries, hit, attempts, succeeded, r) ==
  /\ adapter' = r.adapter
  /\ last_call' = CallRecord(n, adapter, txt, max_retries, hit, attempts, succeeded,
                             r.returned)
  /\ UNCHANGED pipeline

\* OpenAISecureAdapter.translate(text, use_cache, retry_on_error,
\* max_retries), the n-th call of the adapter
OpenAITranslate(n, texts, caching) ==
  \E txt \in texts, use_cache \in caching, max_retries \in 0..MaxRetries :
    \E before \in {OpenAIBeforeRequest(adapter, txt, use_cache)} :
      IF before.finished
        THEN Returns(n, txt, max_retries, before.hit, 0, FALSE, before)
      ELSE \E metadata \in {Metadata(adapter, txt)} :
        IF ValidateRaises(adapter, metadata)
          THEN Returns(n, txt, max_retries, FALSE, 0, FALSE, before)
        ELSE \E content \in Replies :
          \E answered \in {AfterResponse(adapter, txt, use_cache, metadata, content)} :
            \E retry_on_error \in BOOLEAN,
               fails \in SeqsUpTo(FailureKinds, MaxRetries + 1) :
              \E loop \in {RetryLoop(fails, 0, 0, max_retries, retry_on_error)} :
                Returns(n, txt, max_retries, FALSE, loop.attempts,
                        loop.outcome = "response",
                        AfterLoop(adapter, txt, loop, answered))

\* the first call of the adapter
OpenAITranslateCall ==
  /\ adapter.kind = "openai"
  /\ last_call.n = 0
  /\ OpenAITranslate(1, AdapterTexts, BOOLEAN)
\* the same text handed to translate once more, the cache in use
OpenAITranslateAgain ==
  /\ adapter.kind = "openai"
  /\ last_call.n = 1
  /\ OpenAITranslate(2, {last_call.text}, {TRUE})

\* ALIAMedicalTranslator: TranslationMode values of the model
AliaModes == {"direct", "medical"}
\* self.medications: of its entries the model holds 'tempra'
Medications ==
  <<[key |-> <<"t","e","m","p","r","a">>,
     value |-> <<"a","c","e","t","a","m","i","n","o","p","h","e","n">>]>>
\* apply_glossary_fixes(text)
RECURSIVE ApplyGlossaryFixes(_, _)
ApplyGlossaryFixes(k, result) ==
  IF k > Len(Medications) THEN result
  ELSE ApplyGlossaryFixes(k + 1, RegexSub([ic |-> TRUE, ast |-> Lit(Medications[k].key)],
                                          Medications[k].value, result))

\* set(list)
SetOf(list) == {list[k] : k \in 1..Len(list)}
\* validate_placeholders(original_placeholders, translated_text)
ValidatePlaceholders(original_placeholders, translated_text) ==
  SetOf(original_placeholders) = SetOf(FindAll(PhiPattern, translated_text))

\* ALIAMedicalTranslator(...) after __init__.  self.cache is {} or, with
\* the cache disabled, None, which no call reads or writes: both stand as
\* the empty dict.
AliaAdapters ==
  {[kind |-> "alia", cache_enabled |-> e, max_retries |-> r,
    cache |-> <<>>, cache_hits |-> 0, api_calls |-> 0] :
     e \in BOOLEAN, r \in 1..(MaxRetries + 1)}

\* the temperature of translate, its default
Temperature == <<"0",".","3">>
\* translate up to the request: the early return of a blank text and the
\* cache
AliaBeforeRequest(a, txt, mode) ==
  IF txt = <<>> \/ IsBlank(txt)
    THEN [finished |-> TRUE, adapter |-> a, returned |-> txt, hit |-> FALSE]
  ELSE IF a.cache_enabled /\ HasKey(a.cache, CacheKey(<<txt, mode, Temperature>>))
    THEN [finished |-> TRUE, adapter |-> [a EXCEPT !.cache_hits = @ + 1],
          returned |-> DictGet(a.cache, CacheKey(<<txt, mode, Temperature>>)),
          hit |-> TRUE]
  ELSE [finished |-> FALSE, adapter |-> a, returned |-> txt, hit |-> FALSE]

AliaFailureKinds == {"status", "timeout"}
\* for attempt in range(self.max_retries): the attempts made and how the
\* loop ended, with a 200 response, with the Timeout raised, with the last
\* response one of another status, or with no turn made
RECURSIVE AliaRetryLoop(_, _, _)
AliaRetryLoop(fails, attempt, max_retries) ==
  IF attempt >= max_retries
    THEN [attempts |-> attempt, outcome |-> IF attempt = 0 THEN "unbound" ELSE "status"]
  ELSE IF attempt + 1 > Len(fails)
    THEN [attempts |-> attempt + 1, outcome |-> "response"]
  ELSE IF fails[attempt + 1] = "status" \/ attempt < max_retries - 1
    THEN AliaRetryLoop(fails, attempt + 1, max_retries)
  ELSE [attempts |-> attempt + 1, outcome |-> "raised"]

\* the translation kept as the mode has it
AliaFixed(mode, translated) ==
  IF mode = "medical" THEN ApplyGlossaryFixes(1, translated) ELSE translated
\* translate from the 200 response on: strip, the validation, the glossary
\* fixes, the cache
AliaAfterResponse(a, txt, mode, placeholders, content) ==
  IF placeholders # <<>> /\ ~ValidatePlaceholders(placeholders, Strip(content))
    THEN [adapter |-> [a EXCEPT !.api_calls = @ + 1], returned |-> txt]
    ELSE [adapter  |-> [a EXCEPT !.api_calls = @ + 1,
                                 !.cache = IF a.cache_enabled
                                             THEN DictSet(@, CacheKey(<<txt, mode, Temperature>>),
                                                          AliaFixed(mode, Strip(content)))
                                             ELSE @],
          returned |-> AliaFixed(mode, Strip(content))]

\* ALIAMedicalTranslator.translate(text, mode), the n-th call of the adapter
AliaTranslate(n, texts) ==
  \E txt \in texts, mode \in AliaModes :
    \E before \in {AliaBeforeRequest(adapter, txt, mode)} :
      IF before.finished
        THEN Returns(n, txt, adapter.max_retries, before.hit, 0, FALSE, before)
      ELSE \E placeholders \in {FindAll(PhiPattern, txt)} :
        \E content \in Replies :
          \E answered \in {AliaAfterResponse(adapter, txt, mode, placeholders, content)} :
            \E fails \in SeqsUpTo(AliaFailureKinds, MaxRetries + 1) :
              \E loop \in {AliaRetryLoop(fails, 0, adapter.max_retries)} :
                Returns(n, txt, adapter.max_retries, FALSE, loop.attempts,
                        loop.outcome = "response",
                        AfterLoop(adapter, txt, loop, answered))

AliaTranslateCall ==
  /\ adapter.kind = "alia"
  /\ last_call.n = 0
  /\ AliaTranslate(1, AdapterTexts)
\* the same text handed to translate once more
AliaTranslateAgain ==
  /\ adapter.kind = "alia"
  /\ last_call.n = 1
  /\ AliaTranslate(2, {last_call.text})

\* an adapter constructed and not yet called
InitAdapters ==
  /\ adapter \in OpenAIAdapters \cup AliaAdapters
  /\ last_call = NoCall
  /\ text = <<>>
  /\ env = NoFault
  /\ done = {}
  /\ matches = <<>>
  /\ report = [empty |-> TRUE]
  /\ sanitized = <<>>
  /\ phi_map = <<>>
  /\ rematches = <<>>
  /\ restored = <<>>
  /\ audit_log = <<>>
  /\ logged = <<>>
  /\ clock = 0
  /\ proc_audit_log = <<>>
  /\ audit_file = <<>>
  /\ all_matches = <<>>
  /\ filtered_matches = <<>>
  /\ stages = <<>>
  /\ sent = <<>>
  /\ translated_sanitized = <<>>
  /\ translated_final = <<>>
  /\ chunk_outcomes = <<>>
  /\ raised = "none"
  /\ callers = <<>>

NextAdapters ==
  \/ OpenAITranslateCall
  \/ OpenAITranslateAgain
  \/ AliaTranslateCall
  \/ AliaTranslateAgain

SpecAdapters == InitAdapters /\ [][NextAdapters]_vars

(***************************************************************************)
(* Properties.                                                             *)
(***************************************************************************)
\* two spans share a character position
Overlap(a, b) == a.start < b.end /\ b.start < a.end
NonOverlapping(ms) ==
  \A i, j \in 1..Len(ms) : i < j => ~Overlap(ms[i], ms[j])
Range(f) == {f[k] : k \in DOMAIN f}
\* the _log_detection call made by sanitize_text: the second one when
\* detect_phi was called before it
SanitizeCallIndex == IF "detect" \in done THEN 2 ELSE 1
SanitizedMatches == logged[SanitizeCallIndex].matches

\* C1: restore_phi applied to the sanitized text and the map sanitize_text
\* returned for a text gives back exactly that text
RoundTrip == "restore" \in done => restored = text

\* C2: no two matches of a list the overlap resolver returns (the list
\* detect_phi returns) share a character position
NoOverlap ==
  /\ NonOverlapping(filtered_matches)
  /\ NonOverlapping(matches)
  /\ NonOverlapping(rematches)
NoOverlapWitness ==
  /\ done = {"resolve"}
  /\ Len(filtered_matches) >= 2
  /\ \E i, j \in 1..Len(all_matches) :
       i # j /\ Overlap(all_matches[i], all_matches[j])

\* C3: of two candidates that share a position and differ in confidence the
\* resolved set never holds both; it holds the lower one only where the
\* higher one lost to a retained candidate of at least its own confidence,
\* and when the two are the only candidates it is exactly the higher one
PriorityKept ==
  done = {"resolve"} =>
    \A i, j \in 1..Len(all_matches) :
      LET hi == all_matches[i]
          lo == all_matches[j]
      IN  Overlap(hi, lo) /\ hi.confidence > lo.confidence =>
            /\ lo \in Range(filtered_matches) =>
                 /\ hi \notin Range(filtered_matches)
                 /\ \E c \in Range(filtered_matches) :
                      Overlap(c, hi) /\ c.confidence >= hi.confidence
            /\ Len(all_matches) = 2 => filtered_matches = <<hi>>
\* the lower confidence registered first: HEALTH_PLAN 0.85 before PHONE 0.95
PriorityKeptWitness ==
  /\ done = {"resolve"}
  /\ Len(all_matches) = 2
  /\ Overlap(all_matches[1], all_matches[2])
  /\ all_matches[1].start < all_matches[2].start
  /\ all_matches[1].confidence < all_matches[2].confidence
  /\ filtered_matches = <<all_matches[2]>>

\* C4: sanitizing "CURP: GOHM450315MGTRNR08 NSS: 12345678901" keeps the
\* labels and gives "CURP: [CURP_0] NSS: [NSS_1]"
ScenarioAExpected == <<"C","U","R","P",":"," ","[","C","U","R","P","_","0","]"," ","N","S","S",":"," ","[","N","S","S","_","1","]">>
ScenarioASanitized ==
  (text = ScenarioA /\ "sanitize" \in done) => sanitized = ScenarioAExpected

\* the ordinal a placeholder key carries: the digits between its last "_"
\* and its closing "]"
DigitValue == [c \in Digit |-> CHOOSE d \in 0..9 : DigitSeq[d + 1] = c]
RECURSIVE StrToInt(_)
StrToInt(s) ==
  IF s = <<>> THEN 0
  ELSE 10 * StrToInt(SubSeq(s, 1, Len(s) - 1)) + DigitValue[s[Len(s)]]
LastUnderscore(key) ==
  CHOOSE i \in 1..Len(key) :
    key[i] = "_" /\ \A j \in (i + 1)..Len(key) : key[j] # "_"
WellFormedKey(key) ==
  /\ Len(key) >= 4
  /\ key[1] = "[" /\ key[Len(key)] = "]"
  /\ \E i \in 2..(Len(key) - 2) :
       /\ key[i] = "_"
       /\ \A j \in (i + 1)..(Len(key) - 1) : key[j] \in Digit
KeyOrdinal(key) == StrToInt(SubSeq(key, LastUnderscore(key) + 1, Len(key) - 1))
KeyType(key) == SubSeq(key, 2, LastUnderscore(key) - 1)

\* C5: within one sanitize_text call the k-th entry put into the map carries
\* the ordinal k - 1 whatever its type, the keys are pairwise distinct, and
\* the map has exactly one entry per resolved match
PlaceholderNumbering ==
  "sanitize" \in done =>
    /\ Len(phi_map) = Len(SanitizedMatches)
    /\ {phi_map[k].value : k \in 1..Len(phi_map)} = Range(SanitizedMatches)
    /\ \A k \in 1..Len(phi_map) :
         /\ WellFormedKey(phi_map[k].key)
         /\ KeyOrdinal(phi_map[k].key) = k - 1
         /\ KeyType(phi_map[k].key) = UpperStr(PHITypeValue(phi_map[k].value.phi_type))
    /\ \A j, k \in 1..Len(phi_map) : j # k => phi_map[j].key # phi_map[k].key
\* three entries, two of them of one type
PlaceholderNumberingWitness ==
  /\ "sanitize" \in done
  /\ Len(phi_map) >= 3
  /\ \E j, k \in 1..Len(phi_map) :
       /\ j # k
       /\ phi_map[j].value.phi_type = phi_map[k].value.phi_type
  /\ \E j, k \in 1..Len(phi_map) :
       phi_map[j].value.phi_type # phi_map[k].value.phi_type

\* C6: detection on the sanitized text yields no match whose value is a
\* placeholder of that text's map
PlaceholderNotRedetected ==
  "redetect" \in done =>
    \A k \in 1..Len(rematches) : ~HasKey(phi_map, rematches[k].value)

\* m.value.startswith('[') and m.value.endswith(']'): what the check of the
\* sanitized text takes for a placeholder
IsPlaceholderToken(value) ==
  value # <<>> /\ value[1] = "[" /\ value[Len(value)] = "]"

\* C7: detection on the sanitized text yields no match whose value is
\* something other than a placeholder token
NoPhiRemains ==
  "redetect" \in done =>
    \A k \in 1..Len(rematches) : IsPlaceholderToken(rematches[k].value)

\* the placeholder that stands for a resolved match
EntriesOf(m) == {k \in 1..Len(phi_map) : phi_map[k].value = m}
KeyOf(m) == phi_map[CHOOSE k \in EntriesOf(m) : TRUE].key
\* txt from offset pos on, the spans ms[k], ms[k+1], ... replaced by their
\* placeholders and everything else copied
RECURSIVE Framed(_, _, _, _)
Framed(txt, ms, k, pos) ==
  IF k > Len(ms) THEN Slice(txt, pos, Len(txt))
  ELSE Slice(txt, pos, ms[k].start) \o KeyOf(ms[k])
         \o Framed(txt, ms, k + 1, ms[k].end)

\* C8: the sanitized text is the original text with each resolved span
\* replaced by its placeholder; the text before, between and after the spans
\* is kept as it is and in its order
SanitizerFrame ==
  "sanitize" \in done =>
    /\ \A k \in 1..Len(SanitizedMatches) : EntriesOf(SanitizedMatches[k]) # {}
    /\ sanitized = Framed(text, SanitizedMatches, 1, 0)
\* two spans with text before, between and after them
SanitizerFrameWitness ==
  /\ "sanitize" \in done
  /\ Len(SanitizedMatches) = 2
  /\ SanitizedMatches[1].start > 0
  /\ SanitizedMatches[2].start > SanitizedMatches[1].end
  /\ SanitizedMatches[2].end < Len(text)
  /\ sanitized # text

\* v occurs in s
Contains(s, v) ==
  \E i \in 1..(Len(s) - Len(v) + 1) : SubSeq(s, i, i + Len(v) - 1) = v
\* the document text and the values of the matches, as handed to a logging
\* call
RawValues(txt, ms) == ({txt} \cup {ms[k].value : k \in 1..Len(ms)}) \ {<<>>}
TypeValues(ms) == {PHITypeValue(ms[k].phi_type) : k \in 1..Len(ms)}
IsHashPrefix(h) ==
  /\ Len(h) = 16
  /\ \A k \in 1..Len(h) : h[k] \in Range(HexSeq)
\* hash is the record's digest and types its type list, for a call with the
\* document txt and the resolved matches ms
RecordContent(txt, ms, phi_count, types, hash) ==
  /\ phi_count = Len(ms)
  /\ Range(types) = TypeValues(ms)
  /\ Len(types) = Cardinality(TypeValues(ms))
  /\ IsHashPrefix(hash)
  /\ \A v \in RawValues(txt, ms) :
       /\ ~Contains(hash, v)
       /\ \A k \in 1..Len(types) : ~Contains(types[k], v)

\* C9: every audit record has phi_count equal to the number of resolved
\* matches and each distinct type of those matches exactly once; its only
\* other fields are a timestamp, counters and fixed labels, and neither the
\* document text nor a match value occurs in it, only a 16-digit digest
AuditRecordContent ==
  /\ Len(logged) = Len(audit_log)
  /\ \A k \in 1..Len(audit_log) :
       /\ DOMAIN audit_log[k] = {"timestamp", "text_hash", "phi_types_found",
                                 "phi_count", "high_confidence_count"}
       /\ RecordContent(logged[k].text, logged[k].matches, audit_log[k].phi_count,
                        audit_log[k].phi_types_found, audit_log[k].text_hash)
       /\ audit_log[k].timestamp \in Nat
       /\ audit_log[k].high_confidence_count \in 0..Len(logged[k].matches)
  /\ \A k \in 1..Len(proc_audit_log) :
       /\ DOMAIN proc_audit_log[k] = {"timestamp", "operation", "document_hash",
                                      "phi_count", "phi_types", "user", "purpose"}
       /\ RecordContent(text, matches, proc_audit_log[k].phi_count,
                        proc_audit_log[k].phi_types, proc_audit_log[k].document_hash)
       /\ proc_audit_log[k].timestamp \in Nat
       /\ proc_audit_log[k].operation = "translation"
       /\ proc_audit_log[k].user \in Users
       /\ proc_audit_log[k].purpose = "medical_translation"
       /\ audit_file[k] = proc_audit_log[k]
\* records of three matches of two types, from both loggers
AuditRecordContentWitness ==
  /\ "handling" \in done
  /\ \E k \in 1..Len(audit_log) :
       audit_log[k].phi_count = 3 /\ Len(audit_log[k].phi_types_found) = 2
  /\ \E k \in 1..Len(proc_audit_log) :
       proc_audit_log[k].phi_count = 3 /\ Len(proc_audit_log[k].phi_types) = 2

IsPrefix(s, t) == Len(s) <= Len(t) /\ SubSeq(t, 1, Len(s)) = s
\* the operation a step performs
Performed == done' \ done

\* C10: a step of detect_phi or sanitize_text appends exactly one record to
\* the detector's log, a step of _log_phi_handling exactly one to the
\* processor's log and file, and no step (restore_phi and generate_report
\* included) changes or removes a record: the log before is a prefix of the
\* log after
AppendOnly ==
  [][/\ IsPrefix(audit_log, audit_log')
     /\ IsPrefix(proc_audit_log, proc_audit_log')
     /\ IsPrefix(audit_file, audit_file')
     /\ Len(audit_log') = Len(audit_log) +
          (IF Performed \cap {"detect", "sanitize", "redetect"} # {} THEN 1 ELSE 0)
     /\ Len(proc_audit_log') = Len(proc_audit_log) +
          (IF "handling" \in Performed THEN 1 ELSE 0)
     /\ Len(audit_file') = Len(proc_audit_log')]_vars
\* every operation has run on a log that held records
AppendOnlyWitness ==
  /\ {"detect", "report", "sanitize", "handling", "restore"} \subseteq done
  /\ Len(audit_log) = 2
  /\ Len(proc_audit_log) = 1
  /\ audit_log[1].phi_count > 0

SameSpan(a, b) == a.start = b.start /\ a.end = b.end

\* C13: of two candidates with the same span and the same confidence the
\* one of the later registered rule is never retained; the one of the rule
\* registered first is retained unless another retained candidate overlaps
\* it, and when the two are the only candidates it alone is retained
TieBreak ==
  done = {"resolve"} =>
    \A i, j \in 1..Len(all_matches) :
      LET first  == all_matches[i]
          second == all_matches[j]
      IN  (i < j /\ SameSpan(first, second)
             /\ first.confidence = second.confidence) =>
            /\ second \notin Range(filtered_matches)
            /\ \/ first \in Range(filtered_matches)
               \/ \E c \in Range(filtered_matches) : Overlap(c, first)
            /\ Len(all_matches) = 2 => filtered_matches = <<first>>
\* NSS and PHONE, both 0.95, on one span
TieBreakWitness ==
  /\ done = {"resolve"}
  /\ Len(all_matches) = 2
  /\ SameSpan(all_matches[1], all_matches[2])
  /\ all_matches[1].confidence = all_matches[2].confidence
  /\ all_matches[1].phi_type # all_matches[2].phi_type
  /\ filtered_matches = <<all_matches[1]>>

NoPhiIsNormal ==
  (logged # <<>> /\ all_matches = <<>>) =>
    /\ raised = "none"
    /\ Len(audit_log) = Len(logged)
    /\ logged[Len(logged)].matches = <<>>
    /\ audit_log[Len(audit_log)].phi_count = 0
    /\ "redetect" \in done => rematches = <<>>
    /\ "redetect" \notin done =>
         /\ "detect" \in done => matches = <<>>
         /\ "sanitize" \in done => sanitized = text /\ phi_map = <<>>

NoPhiIsNormalWitness ==
  /\ {"detect", "sanitize"} \subseteq done
  /\ "redetect" \notin done
  /\ text # <<>>
  /\ all_matches = <<>>
  /\ sanitized = text
  /\ audit_log[2].phi_count = 0

\* C12: the audit logger is invoked after detection and after restoration.
\* Every call that completed a detection (detect_phi, sanitize_text, the
\* detection on the sanitized text) and the handling log of the processor has
\* appended its record, and every completed restoration has appended one more.
AuditedAfterDetectionAndRestoration ==
  LET records      == Len(audit_log) + Len(proc_audit_log)
      detections   == Cardinality(done \cap {"detect", "sanitize", "redetect"})
      handlings    == Cardinality(done \cap {"handling"})
      restorations == Cardinality(done \cap {"restore", "restore_translated"})
  IN  /\ detections > 0 => audit_log # <<>>
      /\ records >= detections + handlings + restorations

\* the stage at position k of the history comes after a stage named earlier
After(k, earlier) == \E j \in 1..(k - 1) : stages[j] = earlier

\* C19: the stages of a document run in the order matching, overlap
\* resolution, sanitization, translation, restoration.  The resolver runs
\* right after the matching loop and on the complete candidate list, the
\* substitution right after the resolver, translation after sanitization,
\* restoration after sanitization and, in the processor, after translation;
\* every text given to the translation service is a chunk of the text
\* sanitize_text returned, with the placeholders of the map in place of the
\* detected values.
StageOrder ==
  /\ \A k \in 1..Len(stages) :
       /\ stages[k] = "resolve" => k > 1 /\ stages[k - 1] = "match"
       /\ stages[k] = "sanitize" => k > 1 /\ stages[k - 1] = "resolve"
       /\ stages[k] = "translate" => After(k, "sanitize")
       /\ stages[k] = "restore" =>
            /\ After(k, "sanitize")
            /\ "translate" \in done => After(k, "translate")
  /\ "restore_translated" \in done =>
       stages = <<"match", "resolve", "match", "resolve", "sanitize",
                  "translate", "restore">>
  /\ stages # <<>> => filtered_matches = Resolved(all_matches)
  /\ (text = ScenarioA /\ done \cap {"detect", "sanitize"} # {}
        /\ "redetect" \notin done) => all_matches = AllMatches(text, 1)
  /\ \A k \in 1..Len(sent) :
       /\ "sanitize" \in done
       /\ sent[k] \in Range(ChunkTexts(SplitLines(sanitized)))
       /\ phi_map # <<>> =>
            /\ sent[k] # text
            /\ \E e \in 1..Len(phi_map) : Contains(sent[k], phi_map[e].key)

StageOrderWitness ==
  /\ "restore_translated" \in done
  /\ phi_map # <<>>
  /\ sent = <<sanitized>>
  /\ translated_sanitized # sanitized
  /\ translated_final # translated_sanitized

\* the orders in which the n entries of a map can be taken
Orders(n) == {f \in [1..n -> 1..n] : \A i, j \in 1..n : f[i] = f[j] => i = j}

\* C18: restoration is order-independent.  For the sanitized text and the map
\* sanitize_text returned, replacing the placeholders in any order of the map
\* entries gives the text restore_phi gives.
RestoreOrderIndependent ==
  "sanitize" \in done =>
    \A f \in Orders(Len(phi_map)) :
      RestoreLoop(sanitized, [k \in 1..Len(phi_map) |-> phi_map[f[k]]], 1)
        = RestorePhi(sanitized, phi_map)

\* C16: rule failure is isolated.  When the matcher of one rule raises, the
\* call of detect_phi does not raise: detection of the document completes.
RuleFailureIsolated ==
  env.rule # 0 => raised \notin {"detect_phi", "sanitize_text"}

\* C17: a failed write of the audit file is retried exactly once.  When the
\* failure reaches the caller of _log_phi_handling, two attempts have been
\* made, the write and its one retry.
AuditWriteRetriedOnce ==
  raised = "_log_phi_handling" => env.attempts = 2

\* the places of a log that hold the record entry
PlacesOf(log, entry) == {k \in 1..Len(log) : log[k] = entry}

GreedyMaximal ==
  done = {"resolve"} =>
    \A k \in 1..Len(all_matches) :
      all_matches[k] \notin Range(filtered_matches) =>
        /\ \E a \in Range(filtered_matches) :
             /\ Overlap(a, all_matches[k])
             /\ a.confidence >= all_matches[k].confidence
        /\ ~NonOverlapping(Append(filtered_matches, all_matches[k]))

\* three candidates: the middle one, of the highest confidence, is retained,
\* the first is rejected for it and the third, clear of it, is retained too
GreedyMaximalWitness ==
  /\ done = {"resolve"}
  /\ Len(all_matches) = 3
  /\ Len(filtered_matches) = 2
  /\ \E k \in 1..3 :
       /\ all_matches[k] \notin Range(filtered_matches)
       /\ \E a \in Range(filtered_matches) :
            Overlap(a, all_matches[k]) /\ a.confidence > all_matches[k].confidence
       /\ \E b \in Range(filtered_matches) : ~Overlap(b, all_matches[k])

\* C23: sanitize_text removes all detected PHI.  Every character position
\* inside a candidate the patterns produced on the text, the candidates the
\* resolver discarded included, is inside a span sanitize_text replaced.
AllCandidatesRemoved ==
  ("sanitize" \in done /\ "redetect" \notin done) =>
    \A k \in 1..Len(all_matches) :
      \A pos \in Positions(all_matches[k]) :
        \E j \in 1..Len(filtered_matches) :
          pos \in Positions(filtered_matches[j])

\* the working text and map of sanitize_text before the match at place k of
\* ms is substituted: the matches after place k have been
Working(ms, txt, k) ==
  SanitizeLoop(SubSeq(ms, k + 1, Len(ms)), Len(ms) - k,
               [sanitized |-> txt, phi_map |-> <<>>])

\* C24: offsets stay valid during sanitization.  The matches are processed
\* in descending start order, and before each substitution the working text
\* holds at [start, end) of every match not yet processed the characters the
\* original text has there; the text after the last substitution is the one
\* sanitize_text returns.
OffsetsValid ==
  ("sanitize" \in done /\ done \subseteq {"detect", "sanitize"}) =>
    \E ms \in {SanitizedMatches} :
      /\ \A k \in 2..Len(ms) : ms[k - 1].start < ms[k].start
      /\ \A k \in 1..Len(ms) :
           \E working \in {Working(ms, text, k).sanitized} :
             \A j \in 1..k :
               Slice(working, ms[j].start, ms[j].end)
                 = Slice(text, ms[j].start, ms[j].end)
      /\ Working(ms, text, 0) = [sanitized |-> sanitized, phi_map |-> phi_map]

\* two matches, the later one replaced by a placeholder of another length
\* than its value, the higher confidence on the later match
OffsetsValidWitness ==
  /\ done = {"sanitize"}
  /\ Len(SanitizedMatches) >= 2
  /\ SanitizedMatches[1].confidence < SanitizedMatches[2].confidence
  /\ Len(phi_map[1].key) # SanitizedMatches[2].end - SanitizedMatches[2].start
  /\ phi_map[1].value = SanitizedMatches[Len(SanitizedMatches)]

\* C25: in the detector of phi_detector_spanish.py the replacement in
\* reverse position order keeps the indices valid.  At every step of the loop
\* of sanitize_text the characters the step removes from the working text at
\* [start, end) are the characters the original text has at [start, end).
BasicIndicesValid ==
  "sanitize" \in done =>
    /\ BasicSanitize(text, all_matches) = [sanitized |-> sanitized, phi_map |-> phi_map]
    /\ \A k \in 1..Len(all_matches) :
         PySlice(BasicSanitize(text, SubSeq(all_matches, 1, k - 1)).sanitized,
                 all_matches[k].start, all_matches[k].end)
           = PySlice(text, all_matches[k].start, all_matches[k].end)

\* how often a token stands in a list of tokens
TokenCount(tokens, tok) == Cardinality({k \in 1..Len(tokens) : tokens[k] = tok})
\* the placeholder tokens of a text, one entry an occurrence
TokensOf(txt) == FindAll(PhiPattern, txt)
\* the same tokens, each as often
SameTokens(a, b) ==
  \A tok \in Range(a) \cup Range(b) : TokenCount(a, tok) = TokenCount(b, tok)
\* every occurrence of a token of a is in b
KeepsTokens(a, b) ==
  \A tok \in Range(a) : TokenCount(b, tok) >= TokenCount(a, tok)

\* C21: for a text that holds placeholder tokens, OpenAISecureAdapter.translate
\* returns a text with exactly the same multiset of placeholder tokens, or
\* the text it was given; no placeholder is dropped, added or altered.
PlaceholdersPreserved ==
  (adapter.kind = "openai" /\ last_call.n > 0 /\ TokensOf(last_call.text) # <<>>) =>
    \/ last_call.returned = last_call.text
    \/ SameTokens(TokensOf(last_call.text), TokensOf(last_call.returned))

\* C27: one call of OpenAISecureAdapter.translate makes at most
\* max_retries + 1 API attempts whatever the service raises, api_calls grows
\* by one exactly when an attempt succeeded, and the call hands back the text
\* it was given when every attempt failed.
RetriesBounded ==
  (adapter.kind = "openai" /\ last_call.n > 0) =>
    /\ last_call.attempts <= last_call.max_retries + 1
    /\ adapter.api_calls - last_call.before.api_calls
         = IF last_call.succeeded THEN 1 ELSE 0
    /\ (last_call.attempts > 0 /\ ~last_call.succeeded) =>
         last_call.returned = last_call.text
\* every attempt the loop allows is made, rate limits and API errors mixed,
\* and all of them fail
RetriesBoundedWitness ==
  /\ adapter.kind = "openai"
  /\ last_call.n > 0
  /\ last_call.max_retries >= 1
  /\ last_call.attempts = last_call.max_retries + 1
  /\ ~last_call.succeeded
  /\ last_call.returned = last_call.text

\* C28: the cache of an adapter holds only translations that kept the
\* placeholders of their text, a call that got no translation leaves the
\* cache as it was, and what a cache hit returns has lost no placeholder.
CacheSound ==
  last_call.n > 0 =>
    /\ \A k \in 1..Len(adapter.cache) :
         KeepsTokens(TokensOf(IF adapter.kind = "openai" THEN adapter.cache[k].key.md5
                              ELSE adapter.cache[k].key.md5[1]),
                     TokensOf(adapter.cache[k].value))
    /\ (~last_call.hit /\ ~last_call.succeeded) =>
         adapter.cache = last_call.before.cache
    /\ last_call.hit =>
         KeepsTokens(TokensOf(last_call.text), TokensOf(last_call.returned))

\* C29: the ALIA adapter hands back a translation only when every
\* placeholder occurrence of the source text is still in it, and the source
\* text otherwise.
OccurrencesValidated ==
  (adapter.kind = "alia" /\ last_call.n > 0 /\ ~last_call.hit) =>
    \/ last_call.returned = last_call.text
    \/ KeepsTokens(TokensOf(last_call.text), TokensOf(last_call.returned))

\* C30: with require_baa and validate_phi set, a text the validator flags
\* is not sent to the service: the call makes no API attempt, returns the
\* text, and leaves the cache and the audit log of the adapter as they were.
FlaggedTextNotSent ==
  (/\ adapter.kind = "openai"
   /\ last_call.n > 0
   /\ adapter.require_baa
   /\ adapter.validate_phi
   /\ ~IsSafe(last_call.text)) =>
    /\ last_call.attempts = 0
    /\ last_call.returned = last_call.text
    /\ adapter.cache = last_call.before.cache
    /\ adapter.audit_log = last_call.before.audit_log
\* a flagged text was handed to such an adapter, twice
FlaggedTextNotSentWitness ==
  /\ adapter.kind = "openai"
  /\ last_call.n = 2
  /\ adapter.require_baa
  /\ adapter.validate_phi
  /\ ~IsSafe(last_call.text)
  /\ last_call.returned = last_call.text

\* C26: when the request of a chunk raises in translate_with_phi_protection,
\* the sanitized chunk stands verbatim in its place among the translated
\* parts, every chunk after it is still sent, and in the final text every
\* placeholder of the failed chunk has given way to its original value,
\* which the final text holds.
ChunkFailureKeepsPhi ==
  "restore_translated" \in done =>
    \E chunks \in {ChunkTexts(SplitLines(sanitized))} :
      /\ Len(chunk_outcomes) = Len(chunks)
      /\ sent = SelectSeq(chunks, LAMBDA c : ~IsBlank(c))
      /\ translated_sanitized =
           JoinLines([c \in 1..Len(chunks) |->
                        IF chunk_outcomes[c] = "translated" THEN ServiceReply(chunks[c])
                        ELSE chunks[c]])
      /\ \A c \in 1..Len(chunks) : chunk_outcomes[c] = "error" =>
           \A k \in 1..Len(phi_map) : Contains(chunks[c], phi_map[k].key) =>
             /\ ~Contains(translated_final, phi_map[k].key)
             /\ Contains(translated_final, phi_map[k].value.value)

====
